---- MODULE Spec2Model ----
(***************************************************************************)
(* Verification model of the scan-source pipeline of ouster-sdk (python).  *)
(*                                                                         *)
(*   Part 1: _Seekable (sdk/viz.py), the bounded-lookback seekable buffer. *)
(*   Part 2: PcapMultiPacketReader (sdk/pcap/pcap_multi_packet_reader.py), *)
(*           the locked packet reader with its validation counters.        *)
(***************************************************************************)
EXTENDS Integers, Naturals, Sequences, FiniteSets, TLC

(***************************************************************************)
(* Bounds of the model.                                                    *)
(***************************************************************************)
\* longest producer wrapped by a _Seekable
MaxItems == 4
\* largest cache capacity (maxlen) a _Seekable is constructed with
MaxBuf == 2

\* most packets in a pcap file
MaxPackets == 3
\* most seek and restart calls made on one PcapMultiPacketReader
MaxRewinds == 1

\* most frames in one sensor's stream given to the collator
MaxFrames == 2
\* largest frame timestamp given to the collator
MaxTs == 3
\* largest collation window dt
MaxDt == 3
MaxArrivals == 4
MaxFid == 3
MaxEvents == 3
MaxScans == 3
MaxKeys == 2
MaxSets == 2
MaxOffset == 2
MaxMsgs == 2
MaxYields == 3

\* the values a producer may yield
Values == {"a", "b"}

Min(a, b) == IF a < b THEN a ELSE b

\* all sequences over S of length 0..n
RECURSIVE SeqsUpTo(_, _)
SeqsUpTo(S, n) ==
    IF n = 0 THEN {<<>>}
    ELSE LET shorter == SeqsUpTo(S, n - 1)
         IN  shorter \cup {Append(q, x) : q \in {r \in shorter : Len(r) = n - 1}, x \in S}

NoVal == "none"

VARIABLES
    \* ---- _Seekable ----
    iterable,   \* the items the wrapped producer yields, in order (self._iterable)
    it,         \* number of items already pulled from the producer (self._it)
    maxlen,     \* self._maxlen
    next_ind,   \* self._next_ind
    read_ind,   \* self._read_ind
    cache,      \* self._cache, index 1 is the leftmost (most recent) item
    sk_call,    \* the last call made on the _Seekable and what it returned
    sk_pre,     \* the _Seekable's state right before that call
    \* ---- PcapMultiPacketReader ----
    pcap,               \* the packets of the capture file, in order
    reader,             \* self._reader: "open" or "None"
    rd_pos,             \* number of packets the reader handle has read past
    lock,               \* holder of self._lock: "free" or a thread
    soft_id_check,      \* self._soft_id_check
    id_error_count,     \* self._id_error_count
    size_error_count,   \* self._size_error_count
    gen_pc,             \* where the generator of __iter__ stands
    gen_pkt,            \* the packet last read (packet_info, buf, n)
    gen_last,           \* how the last pull on the generator ended
    gen_pull_closed,    \* whether the reader was already closed when that pull began
    mapped_read,        \* packets read so far whose port is in _port_info
    yielded,            \* packets handed to the consumer so far
    seek_pc,            \* where the thread calling seek stands
    seek_off,           \* the offset that thread seeks to
    seek_fault,         \* seek called a method of the cleared handle (AttributeError)
    seek_torn,          \* seek moved the handle while another thread held the lock
    rewinds,            \* seek and restart calls made so far
    \* ---- collate_scans ----
    co_streams,         \* per sensor, the timestamps of its frames in stream order
    co_dt,              \* the collation window dt
    co_heads,           \* per sensor, the position of its pending frame
    co_out,             \* the FrameSets emitted so far
    co_pc,              \* "running", or "done" once the collator ended
    \* ---- OsfScanSource / PcapScanSource ----
    src_msgs,           \* per sensor stream, msg.ts of its LidarScanStream messages
    src_bad,            \* the messages <<sensor, position>> whose decode() gives nothing
    src_dt,             \* self._dt
    src_indexed,        \* self.is_indexed
    src_len,            \* self._len, computed when the source is opened
    src_it_out,         \* the FrameSets a forward iteration has yielded
    src_it_pc,          \* "running", or "done" once the forward iteration ended
    src_call,           \* the last __getitem__ call and how it ended
    \* ---- frame batcher ----
    ba_watermark,       \* the current frame id, 0 before the first packet
    ba_cols,            \* the column indices written into the open frame
    ba_out,             \* the frames emitted so far
    ba_arrived,         \* packets received so far
    ba_last,            \* the last packet received and what became of it
    ba_pc,              \* "running", or "done" at the end of the packet stream
    \* ---- opening an OsfScanSource ----
    op_file_idx,        \* whether the file on disk has a message index
    op_scans,           \* the file's scans in order: whether each is complete
    op_index,           \* the index argument of OsfScanSource(...)
    op_complete,        \* the complete argument of OsfScanSource(...)
    op_reindex,         \* how _reindex_osf_inplace ends if it is called
    op_state,           \* "unopened", "open" (constructor returned) or "raised"
    op_indexed,         \* self.is_indexed of the returned source
    op_out,             \* the scans a forward iteration has yielded
    \* ---- process_commands ----
    pr_events,          \* what the pulls on iter(ctx.scan_source) will give, in order
    pr_pos,             \* pulls made on iter(ctx.scan_source) so far
    pr_save,            \* the generator save_iter: "running" or "ended"
    pr_got,             \* what the pulls of pipeline_flush on ctx.scan_iter gave
    pr_term,            \* ctx.terminate_evt
    pr_has_worker,      \* a callback registered a function in ctx.thread_fns
    pr_has_mainfn,      \* a callback set ctx.main_thread_fn
    pr_worker,          \* the registered thread: "idle", "running" or "done"
    pr_flush,           \* the pipeline_flush thread: "idle", "running", "done" or "failed"
    pr_main,            \* where process_commands stands
    pr_closed,          \* ctx.scan_source.close() was called
    pr_after,           \* pulls pipeline_flush began with the flag already set
    \* ---- SimpleViz ----
    vz_n,               \* how many scans the stream passed to run() holds
    vz_buflen,          \* SimpleViz._buflen
    vz_pause_at,        \* SimpleViz._pause_at
    vz_sk,              \* the fields of the _Seekable that run() builds
    vz_paused,          \* SimpleViz._paused
    vz_step,            \* SimpleViz._step
    vz_proc_exit,       \* SimpleViz._proc_exit
    vz_proc,            \* where the processing thread (_process) stands
    vz_scan_idx,        \* the local scan_idx of _process
    vz_scan,            \* self._scan_viz.scan, the scan drawn last
    vz_main,            \* where run() stands on the main thread
    vz_running,         \* the running flag of the PointViz render loop
    vz_keys,            \* key events handled so far
    vz_closed,          \* what seekable.close() did: "no" (not called), "closed", "raised"
    vz_shown,           \* the scans put on screen by self._viz.update(), in order
    vz_bare,            \* a flag was written without holding _cv while _process ran
    vz_seek,            \* the last seek_relative call, if no key came after it
    vz_pa,              \* the last display of the scan with index pause_at
    vz_req,             \* the step requests made since a step was last taken
    \* ---- PcapScanSource index construction ----
    ix_sets,            \* the FrameSets of the index pass: per sensor, what the lookup of
                        \* the frame's id in pi.frame_id_indices gives
    ix_frame_offset,    \* self._frame_offset
    ix_pc,              \* the loop of the index pass: "running", "done" or "ValueError"
    \* ---- OsfScanSource message iteration ----
    om_sensors,         \* number of LidarSensor entries in the meta store
    om_streams,         \* per LidarScanStream entry, the position of its sensor among them
    om_msgs,            \* the messages of the file, in order: stream and whether decode() works
    om_cycle,           \* self._cycle
    om_pc,              \* the generator _scans_iter: "suspended", "running", "done", "spin"
    om_pos,             \* messages read in the current pass over the file
    om_pass_yields,     \* scans yielded in the current pass
    om_out              \* the sensor indices yielded with the scans, in order

sk_vars == <<iterable, it, maxlen, next_ind, read_ind, cache, sk_call, sk_pre>>

pcap_vars == <<pcap, reader, rd_pos, lock, soft_id_check, id_error_count, size_error_count,
               gen_pc, gen_pkt, gen_last, gen_pull_closed, mapped_read, yielded,
               seek_pc, seek_off, seek_fault, seek_torn, rewinds>>

co_vars == <<co_streams, co_dt, co_heads, co_out, co_pc>>

\* what each part of the model leaves alone
src_vars == <<src_msgs, src_bad, src_dt, src_indexed, src_len, src_it_out, src_it_pc, src_call>>

ba_vars == <<ba_watermark, ba_cols, ba_out, ba_arrived, ba_last, ba_pc>>

ix_vars == <<ix_sets, ix_frame_offset, ix_pc>>

om_vars == <<om_sensors, om_streams, om_msgs, om_cycle, om_pc, om_pos, om_pass_yields, om_out>>

vz_vars == <<vz_n, vz_buflen, vz_pause_at, vz_sk, vz_paused, vz_step, vz_proc_exit, vz_proc,
             vz_scan_idx, vz_scan, vz_main, vz_running, vz_keys, vz_closed, vz_shown,
             vz_bare, vz_seek, vz_pa, vz_req>>

pr_vars == <<pr_events, pr_pos, pr_save, pr_got, pr_term, pr_has_worker, pr_has_mainfn,
             pr_worker, pr_flush, pr_main, pr_closed, pr_after>>

op_vars == <<op_file_idx, op_scans, op_index, op_complete, op_reindex, op_state, op_indexed, op_out>>

NotSk == <<pcap_vars, co_vars, src_vars, ba_vars, op_vars, pr_vars, vz_vars, ix_vars, om_vars>>
NotPcap == <<sk_vars, co_vars, src_vars, ba_vars, op_vars, pr_vars, vz_vars, ix_vars, om_vars>>
NotCo == <<sk_vars, pcap_vars, src_vars, ba_vars, op_vars, pr_vars, vz_vars, ix_vars, om_vars>>
NotSrc == <<sk_vars, pcap_vars, co_vars, ba_vars, op_vars, pr_vars, vz_vars, ix_vars, om_vars>>
NotBa == <<sk_vars, pcap_vars, co_vars, src_vars, op_vars, pr_vars, vz_vars, ix_vars, om_vars>>
NotOp == <<sk_vars, pcap_vars, co_vars, src_vars, ba_vars, pr_vars, vz_vars, ix_vars, om_vars>>
NotPr == <<sk_vars, pcap_vars, co_vars, src_vars, ba_vars, op_vars, vz_vars, ix_vars, om_vars>>
NotVz == <<sk_vars, pcap_vars, co_vars, src_vars, ba_vars, op_vars, pr_vars, ix_vars, om_vars>>
NotIx == <<sk_vars, pcap_vars, co_vars, src_vars, ba_vars, op_vars, pr_vars, vz_vars, om_vars>>
NotOm == <<sk_vars, pcap_vars, co_vars, src_vars, ba_vars, op_vars, pr_vars, vz_vars, ix_vars>>

(***************************************************************************)
(* Part 1: _Seekable                                                       *)
(***************************************************************************)

\* the mutable fields of a _Seekable as one value
SkState == [next_ind |-> next_ind, read_ind |-> read_ind, cache |-> cache, it |-> it]

\* deque.append in place of appendleft: the new item goes to the right end
DequeAppendRight(c, t, m) ==
    IF m = 0 THEN c ELSE SubSeq(c, Len(c) - Min(Len(c), m - 1) + 1, Len(c)) \o <<t>>
\* collections.deque(maxlen=m).appendleft(t): a full deque drops its rightmost item
DequeAppendLeft(c, t, m) ==
    IF m = 0 THEN c ELSE <<t>> \o SubSeq(c, 1, Min(Len(c), m - 1))

\* the cached branch of __next__ (viz.py:418-421), with the wrong offset
NextCachedOffByOne(s) ==
    LET k == s.read_ind - s.next_ind + 1
    IN  IF k + 1 > Len(s.cache)
        THEN [st |-> s, ret |-> "IndexError", val |-> NoVal]
        ELSE [st |-> [s EXCEPT !.next_ind = @ + 1], ret |-> "value", val |-> s.cache[k + 1]]
\* the cached branch of __next__ that also takes an item from the producer
NextCachedAlsoPulls(s) ==
    LET k == s.read_ind - s.next_ind
    IN  IF k + 1 > Len(s.cache)
        THEN [st |-> s, ret |-> "IndexError", val |-> NoVal]
        ELSE [st |-> [s EXCEPT !.next_ind = @ + 1, !.it = @ + 1],
              ret |-> "value", val |-> s.cache[k + 1]]
\* the cached branch of __next__ (viz.py:418-421)
NextCached(s) ==
    LET k == s.read_ind - s.next_ind
    IN  IF k + 1 > Len(s.cache)
        THEN [st |-> s, ret |-> "IndexError", val |-> NoVal]
        ELSE [st |-> [s EXCEPT !.next_ind = @ + 1], ret |-> "value", val |-> s.cache[k + 1]]

\* the pulling branch of __next__ (viz.py:423-430) that forgets to move read_ind
NextPullNoReadInd(s, items, m) ==
    IF s.it >= Len(items)
    THEN [st |-> s, ret |-> "StopIteration", val |-> NoVal]
    ELSE LET t == items[s.it + 1]
             c1 == DequeAppendLeft(s.cache, t, m)
             c2 == IF Len(c1) > m THEN SubSeq(c1, 1, Len(c1) - 1) ELSE c1
         IN  [st |-> [next_ind |-> s.next_ind + 1, read_ind |-> s.read_ind,
                      cache |-> c2, it |-> s.it + 1],
              ret |-> "value", val |-> t]
\* the pulling branch of __next__ (viz.py:423-430)
NextPull(s, items, m) ==
    IF s.it >= Len(items)
    THEN [st |-> s, ret |-> "StopIteration", val |-> NoVal]
    ELSE LET t == items[s.it + 1]
             c1 == DequeAppendLeft(s.cache, t, m)
             c2 == IF Len(c1) > m THEN SubSeq(c1, 1, Len(c1) - 1) ELSE c1
         IN  [st |-> [next_ind |-> s.next_ind + 1, read_ind |-> s.read_ind + 1,
                      cache |-> c2, it |-> s.it + 1],
              ret |-> "value", val |-> t]

\* _Seekable.__next__ (viz.py:416-432)
SeekableNext(s, items, m) ==
    IF s.next_ind <= s.read_ind THEN NextCached(s)
    ELSE IF s.next_ind = s.read_ind + 1 THEN NextPull(s, items, m)
    ELSE [st |-> s, ret |-> "AssertionError", val |-> NoVal]

\* the loop of seek (viz.py:454-455): next(self) until ind <= next_ind;
\* an exception of next(self) leaves the loop with the state reached so far
RECURSIVE SeekForward(_, _, _, _)
SeekForward(s, ind, items, m) ==
    IF ind > s.next_ind
    THEN LET r == SeekableNext(s, items, m)
         IN  IF r.ret = "value" THEN SeekForward(r.st, ind, items, m) ELSE r
    ELSE [st |-> s, ret |-> "value", val |-> NoVal]

\* seek that moves next_ind before it checks the cache window
SeekAssignFirst(s, ind, items, m) ==
    LET f == SeekForward(s, ind, items, m)
    IN  IF f.ret # "value" THEN f
        ELSE IF ind > f.st.read_ind - Len(f.st.cache)
             THEN [st |-> [f.st EXCEPT !.next_ind = ind], ret |-> "True", val |-> NoVal]
             ELSE [st |-> [f.st EXCEPT !.next_ind = ind], ret |-> "False", val |-> NoVal]
\* seek that accepts the index just below the cache window
SeekWindowOffByOne(s, ind, items, m) ==
    LET f == SeekForward(s, ind, items, m)
    IN  IF f.ret # "value" THEN f
        ELSE IF ind >= f.st.read_ind - Len(f.st.cache)
             THEN [st |-> [f.st EXCEPT !.next_ind = ind], ret |-> "True", val |-> NoVal]
             ELSE [st |-> f.st, ret |-> "False", val |-> NoVal]
\* seek that reports success without moving next_ind
SeekNoAssign(s, ind, items, m) ==
    LET f == SeekForward(s, ind, items, m)
    IN  IF f.ret # "value" THEN f
        ELSE IF ind > f.st.read_ind - Len(f.st.cache)
             THEN [st |-> f.st, ret |-> "True", val |-> NoVal]
             ELSE [st |-> f.st, ret |-> "False", val |-> NoVal]
\* seek that stops one item short and so never runs off the producer's end
SeekStopsShort(s, ind, items, m) ==
    LET f == SeekForward(s, Min(ind, Len(items)), items, m)
    IN  IF f.ret # "value" THEN f
        ELSE IF ind > f.st.read_ind - Len(f.st.cache)
             THEN [st |-> [f.st EXCEPT !.next_ind = ind], ret |-> "True", val |-> NoVal]
             ELSE [st |-> f.st, ret |-> "False", val |-> NoVal]
\* _Seekable.seek (viz.py:438-463)
SeekableSeek(s, ind, items, m) ==
    LET f == SeekForward(s, ind, items, m)
    IN  IF f.ret # "value" THEN f
        ELSE IF ind > f.st.read_ind - Len(f.st.cache)
             THEN [st |-> [f.st EXCEPT !.next_ind = ind], ret |-> "True", val |-> NoVal]
             ELSE [st |-> f.st, ret |-> "False", val |-> NoVal]

\* the indices a caller may seek to (SimpleViz seeks to next_ind + step - 1)
SeekTargets == (0 - 2) .. (MaxItems + 1)

\* _Seekable.__init__ (viz.py:405-411)
SkInit ==
    /\ iterable \in SeqsUpTo(Values, MaxItems)
    /\ maxlen \in 0 .. MaxBuf
    /\ it = 0
    /\ next_ind = 0
    /\ read_ind = 0 - 1
    /\ cache = <<>>
    /\ sk_call = [op |-> "init", ind |-> 0, ret |-> NoVal, val |-> NoVal]
    /\ sk_pre = [next_ind |-> 0, read_ind |-> 0 - 1, cache |-> <<>>, it |-> 0]

\* install the outcome r of a call on the _Seekable
SkApply(opname, ind, r) ==
    /\ next_ind' = r.st.next_ind
    /\ read_ind' = r.st.read_ind
    /\ cache' = r.st.cache
    /\ it' = r.st.it
    /\ sk_call' = [op |-> opname, ind |-> ind, ret |-> r.ret, val |-> r.val]
    /\ sk_pre' = SkState
    /\ UNCHANGED <<iterable, maxlen>>
    /\ UNCHANGED NotSk

\* a caller runs next(seekable)
CallNext == SkApply("next", 0, SeekableNext(SkState, iterable, maxlen))

\* a caller runs seekable.seek(ind)
CallSeek == \E ind \in SeekTargets : SkApply("seek", ind, SeekableSeek(SkState, ind, iterable, maxlen))

(***************************************************************************)
(* Part 2: PcapMultiPacketReader                                           *)
(*                                                                         *)
(* Threads: the consumer driving the generator of __iter__, and callers of *)
(* seek, restart and close.  A packet of the file is "other" when its      *)
(* dst_port is not in _port_info, else it is named by what validate()      *)
(* returns for it: "NONE", "PACKET_SIZE" or "ID".                          *)
(***************************************************************************)

PacketKinds == {"other", "NONE", "PACKET_SIZE", "ID"}

\* PcapMultiPacketReader.__init__ (pcap_multi_packet_reader.py:42-107)
PcapInit ==
    /\ pcap \in SeqsUpTo(PacketKinds, MaxPackets)
    /\ soft_id_check \in BOOLEAN
    /\ reader = "open"
    /\ rd_pos = 0
    /\ lock = "free"
    /\ id_error_count = 0
    /\ size_error_count = 0
    /\ gen_pc = "created"
    /\ gen_pkt = NoVal
    /\ gen_last = NoVal
    /\ gen_pull_closed = FALSE
    /\ mapped_read = 0
    /\ yielded = 0
    /\ seek_pc = "idle"
    /\ seek_off = 0
    /\ seek_fault = FALSE
    /\ seek_torn = FALSE
    /\ rewinds = 0

\* a _Seekable alone: no packet reader
SkIdle ==
    /\ pcap = <<>>
    /\ soft_id_check = FALSE
    /\ reader = "open"
    /\ rd_pos = 0
    /\ lock = "free"
    /\ id_error_count = 0
    /\ size_error_count = 0
    /\ gen_pc = "created"
    /\ gen_pkt = NoVal
    /\ gen_last = NoVal
    /\ gen_pull_closed = FALSE
    /\ mapped_read = 0
    /\ yielded = 0
    /\ seek_pc = "idle"
    /\ seek_off = 0
    /\ seek_fault = FALSE
    /\ seek_torn = FALSE
    /\ rewinds = 0

\* a packet reader alone: no _Seekable calls
PcapIdle ==
    /\ iterable = <<>>
    /\ maxlen = 0
    /\ it = 0
    /\ next_ind = 0
    /\ read_ind = 0 - 1
    /\ cache = <<>>
    /\ sk_call = [op |-> "init", ind |-> 0, ret |-> NoVal, val |-> NoVal]
    /\ sk_pre = [next_ind |-> 0, read_ind |-> 0 - 1, cache |-> <<>>, it |-> 0]

\* the property closed (lines 209-213): under the lock, whether the handle
\* is cleared
closed == reader = "None"

\* a pull whose first run skips the closed check and goes to the loop
IterPullNoClosedCheck ==
    /\ gen_pc \in {"created", "suspended"}
    /\ gen_pull_closed' = (reader = "None")
    /\ IF gen_pc = "created"
       THEN lock = "free" /\ gen_pc' = "loop" /\ gen_last' = NoVal
       ELSE gen_pc' = "loop" /\ gen_last' = NoVal
    /\ UNCHANGED <<pcap, reader, rd_pos, lock, soft_id_check, id_error_count, size_error_count,
                   gen_pkt, mapped_read, yielded, seek_pc, seek_off, seek_fault, seek_torn,
                   rewinds>>
    /\ UNCHANGED NotPcap
\* the consumer pulls: the first pull runs the closed check of __iter__ under
\* the lock (lines 110-112), a later pull resumes after the yield (line 161)
IterPull ==
    /\ gen_pc \in {"created", "suspended"}
    /\ gen_pull_closed' = (reader = "None")
    /\ IF gen_pc = "created"
       THEN /\ lock = "free"
            /\ IF reader = "None"
               THEN gen_pc' = "raised" /\ gen_last' = "ValueError"
               ELSE gen_pc' = "loop" /\ gen_last' = NoVal
       ELSE gen_pc' = "loop" /\ gen_last' = NoVal
    /\ UNCHANGED <<pcap, reader, rd_pos, lock, soft_id_check, id_error_count, size_error_count,
                   gen_pkt, mapped_read, yielded, seek_pc, seek_off, seek_fault, seek_torn,
                   rewinds>>
    /\ UNCHANGED NotPcap

\* `with self._lock:` at the top of the loop (line 120)
IterAcquire ==
    /\ gen_pc = "loop"
    /\ lock = "free"
    /\ lock' = "gen"
    /\ gen_pc' = "locked"
    /\ UNCHANGED <<pcap, reader, rd_pos, soft_id_check, id_error_count, size_error_count,
                   gen_pkt, gen_last, gen_pull_closed, mapped_read, yielded,
                   seek_pc, seek_off, seek_fault, seek_torn, rewinds>>
    /\ UNCHANGED NotPcap

\* the loop condition without its `self._reader and` guard
IterNextPacketNoCheck ==
    /\ gen_pc = "locked"
    /\ IF reader = "None"
       THEN /\ gen_pc' = "raised"
            /\ gen_last' = "AttributeError"
            /\ lock' = "free"
            /\ UNCHANGED <<rd_pos, gen_pkt>>
       ELSE IF rd_pos >= Len(pcap)
       THEN /\ gen_pc' = "finished"
            /\ gen_last' = "StopIteration"
            /\ lock' = "free"
            /\ UNCHANGED <<rd_pos, gen_pkt>>
       ELSE /\ rd_pos' = rd_pos + 1
            /\ gen_pkt' = pcap[rd_pos + 1]
            /\ gen_pc' = "have_packet"
            /\ UNCHANGED <<lock, gen_last>>
    /\ UNCHANGED <<pcap, reader, soft_id_check, id_error_count, size_error_count,
                   gen_pull_closed, mapped_read, yielded,
                   seek_pc, seek_off, seek_fault, seek_torn, rewinds>>
    /\ UNCHANGED NotPcap
\* `if not (self._reader and self._reader.next_packet()): break` (lines 121-123):
\* a cleared handle or the end of the file ends the generator and releases the lock
IterNextPacket ==
    /\ gen_pc = "locked"
    /\ IF reader = "None" \/ rd_pos >= Len(pcap)
       THEN /\ gen_pc' = "finished"
            /\ gen_last' = "StopIteration"
            /\ lock' = "free"
            /\ UNCHANGED <<rd_pos, gen_pkt>>
       ELSE /\ rd_pos' = rd_pos + 1
            /\ gen_pkt' = pcap[rd_pos + 1]
            /\ gen_pc' = "have_packet"
            /\ UNCHANGED <<lock, gen_last>>
    /\ UNCHANGED <<pcap, reader, soft_id_check, id_error_count, size_error_count,
                   gen_pull_closed, mapped_read, yielded,
                   seek_pc, seek_off, seek_fault, seek_torn, rewinds>>
    /\ UNCHANGED NotPcap

\* current_info(), the port filter and current_data() (lines 124-130), then the
\* lock is released; they return the packet next_packet() read, and calling
\* current_info() on a cleared handle would raise
IterCurrentInfo ==
    /\ gen_pc = "have_packet"
    /\ lock' = "free"
    /\ IF reader = "None"
       THEN /\ gen_pc' = "raised"
            /\ gen_last' = "AttributeError"
            /\ UNCHANGED <<gen_pkt, mapped_read>>
       ELSE IF gen_pkt = "other"
            THEN /\ gen_pc' = "loop"
                 /\ UNCHANGED <<gen_pkt, gen_last, mapped_read>>
            ELSE /\ gen_pc' = "validate"
                 /\ mapped_read' = mapped_read + 1
                 /\ UNCHANGED <<gen_pkt, gen_last>>
    /\ UNCHANGED <<pcap, reader, rd_pos, soft_id_check, id_error_count, size_error_count,
                   gen_pull_closed, yielded, seek_pc, seek_off, seek_fault, seek_torn, rewinds>>
    /\ UNCHANGED NotPcap

\* validation that skips an ID mismatch before counting it
IterValidateSkipUncounted ==
    /\ gen_pc = "validate"
    /\ IF gen_pkt = "PACKET_SIZE"
       THEN /\ size_error_count' = size_error_count + 1
            /\ gen_pc' = "loop"
            /\ UNCHANGED <<id_error_count, yielded, gen_last>>
       ELSE IF gen_pkt = "ID" /\ ~soft_id_check
       THEN /\ gen_pc' = "loop"
            /\ UNCHANGED <<id_error_count, size_error_count, yielded, gen_last>>
       ELSE /\ id_error_count' = IF gen_pkt = "ID" THEN id_error_count + 1 ELSE id_error_count
            /\ gen_pc' = "suspended"
            /\ gen_last' = "packet"
            /\ yielded' = yielded + 1
            /\ UNCHANGED size_error_count
    /\ UNCHANGED <<pcap, reader, rd_pos, lock, soft_id_check, gen_pkt, gen_pull_closed,
                   mapped_read, seek_pc, seek_off, seek_fault, seek_torn, rewinds>>
    /\ UNCHANGED NotPcap
\* validation with the soft_id_check test inverted: strict mode passes an ID
\* mismatch through, soft mode skips it
IterValidateInvertedSoft ==
    /\ gen_pc = "validate"
    /\ IF gen_pkt = "PACKET_SIZE"
       THEN /\ size_error_count' = size_error_count + 1
            /\ gen_pc' = "loop"
            /\ UNCHANGED <<id_error_count, yielded, gen_last>>
       ELSE IF gen_pkt = "ID" /\ soft_id_check
       THEN /\ id_error_count' = id_error_count + 1
            /\ gen_pc' = "loop"
            /\ UNCHANGED <<size_error_count, yielded, gen_last>>
       ELSE /\ id_error_count' = IF gen_pkt = "ID" THEN id_error_count + 1 ELSE id_error_count
            /\ gen_pc' = "suspended"
            /\ gen_last' = "packet"
            /\ yielded' = yielded + 1
            /\ UNCHANGED size_error_count
    /\ UNCHANGED <<pcap, reader, rd_pos, lock, soft_id_check, gen_pkt, gen_pull_closed,
                   mapped_read, seek_pc, seek_off, seek_fault, seek_torn, rewinds>>
    /\ UNCHANGED NotPcap
\* packet.validate and the two counters (lines 143-161), outside the lock:
\* PACKET_SIZE is counted and skipped, ID is counted and skipped unless
\* soft_id_check, everything else is yielded
IterValidate ==
    /\ gen_pc = "validate"
    /\ IF gen_pkt = "PACKET_SIZE"
       THEN /\ size_error_count' = size_error_count + 1
            /\ gen_pc' = "loop"
            /\ UNCHANGED <<id_error_count, yielded, gen_last>>
       ELSE IF gen_pkt = "ID" /\ ~soft_id_check
       THEN /\ id_error_count' = id_error_count + 1
            /\ gen_pc' = "loop"
            /\ UNCHANGED <<size_error_count, yielded, gen_last>>
       ELSE /\ id_error_count' = IF gen_pkt = "ID" THEN id_error_count + 1 ELSE id_error_count
            /\ gen_pc' = "suspended"
            /\ gen_last' = "packet"
            /\ yielded' = yielded + 1
            /\ UNCHANGED size_error_count
    /\ UNCHANGED <<pcap, reader, rd_pos, lock, soft_id_check, gen_pkt, gen_pull_closed,
                   mapped_read, seek_pc, seek_off, seek_fault, seek_torn, rewinds>>
    /\ UNCHANGED NotPcap

\* seek, first half: `if self._reader:` (line 186), without the lock
PcapSeekCheck ==
    /\ seek_pc = "idle"
    /\ rewinds < MaxRewinds
    /\ rewinds' = rewinds + 1
    /\ \E off \in 0 .. Len(pcap) : seek_off' = off
    /\ seek_pc' = IF reader = "None" THEN "idle" ELSE "use"
    /\ UNCHANGED <<pcap, reader, rd_pos, lock, soft_id_check, id_error_count, size_error_count,
                   gen_pc, gen_pkt, gen_last, gen_pull_closed, mapped_read, yielded,
                   seek_fault, seek_torn>>
    /\ UNCHANGED NotPcap

\* seek, second half: `self._reader.seek(offset)` (line 187), without the lock;
\* self._reader is read again, and is None if close() ran in between
PcapSeekUse ==
    /\ seek_pc = "use"
    /\ seek_pc' = "idle"
    /\ IF reader = "None"
       THEN seek_fault' = TRUE /\ UNCHANGED <<rd_pos, seek_torn>>
       ELSE /\ rd_pos' = seek_off
            /\ seek_torn' = (seek_torn \/ lock # "free")
            /\ UNCHANGED seek_fault
    /\ UNCHANGED <<pcap, reader, lock, soft_id_check, id_error_count, size_error_count,
                   gen_pc, gen_pkt, gen_last, gen_pull_closed, mapped_read, yielded,
                   seek_off, rewinds>>
    /\ UNCHANGED NotPcap

\* restart (lines 198-202): under the lock, reset the handle if there is one
PcapRestart ==
    /\ lock = "free"
    /\ rewinds < MaxRewinds
    /\ rewinds' = rewinds + 1
    /\ rd_pos' = IF reader = "None" THEN rd_pos ELSE 0
    /\ UNCHANGED <<pcap, reader, lock, soft_id_check, id_error_count, size_error_count,
                   gen_pc, gen_pkt, gen_last, gen_pull_closed, mapped_read, yielded,
                   seek_pc, seek_off, seek_fault, seek_torn>>
    /\ UNCHANGED NotPcap

\* close (lines 204-207): under the lock, clear the handle
PcapClose ==
    /\ lock = "free"
    /\ reader = "open"
    /\ reader' = "None"
    /\ UNCHANGED <<pcap, rd_pos, lock, soft_id_check, id_error_count, size_error_count,
                   gen_pc, gen_pkt, gen_last, gen_pull_closed, mapped_read, yielded,
                   seek_pc, seek_off, seek_fault, seek_torn, rewinds>>
    /\ UNCHANGED NotPcap

(***************************************************************************)
(* Part 3: collate_scans, the collator of per-sensor frame streams into    *)
(* FrameSets.  A frame is named by its sensor and its position in that     *)
(* sensor's stream; a FrameSet holds, per sensor, the position of the      *)
(* frame in that slot, or 0 when the slot is absent.                       *)
(***************************************************************************)

\* sensors_count: the number of sensor streams collated
NumSensors == 2

Sensors == 1 .. NumSensors

SetMin(S) == CHOOSE x \in S : \A y \in S : x <= y
SetMax(S) == CHOOSE x \in S : \A y \in S : x >= y

\* the sensors that still have a pending (pre-fetched) frame
Pending(streams, heads) == {s \in Sensors : heads[s] <= Len(streams[s])}

\* the maximum pending timestamp taken for t_min
TMinAsMax(streams, heads) == SetMax({streams[s][heads[s]] : s \in Pending(streams, heads)})

\* the minimum pending timestamp t_min
TMin(streams, heads) == SetMin({streams[s][heads[s]] : s \in Pending(streams, heads)})

\* a window open at its lower end: (t_min, t_min + dt)
InWindowAboveMin(t, tmin, dt) == t > tmin /\ t < tmin + dt
\* a window closed at its upper end: [t_min, t_min + dt]
InWindowClosed(t, tmin, dt) == t >= tmin /\ t <= tmin + dt
\* the window of one collation cycle: [t_min, t_min + dt)
InWindow(t, tmin, dt) == t >= tmin /\ t < tmin + dt

\* the FrameSet one cycle closes out: per sensor its pending frame if that
\* frame's timestamp lies in the window, else absent
NextFrameSet(streams, heads, dt) ==
    LET tmin == TMin(streams, heads)
    IN  [s \in Sensors |->
            IF s \in Pending(streams, heads) /\ InWindow(streams[s][heads[s]], tmin, dt)
            THEN heads[s] ELSE 0]

\* a cycle that advances every sensor with a pending frame
AdvanceAll(streams, heads, fs) ==
    [s \in Sensors |-> IF heads[s] <= Len(streams[s]) THEN heads[s] + 1 ELSE heads[s]]
\* advance only the sensors whose frame was consumed
Advance(streams, heads, fs) ==
    [s \in Sensors |-> IF fs[s] # 0 THEN heads[s] + 1 ELSE heads[s]]

\* the whole output of the collator from the given pending positions
RECURSIVE CollateFrom(_, _, _)
CollateFrom(streams, heads, dt) ==
    IF Pending(streams, heads) = {} THEN <<>>
    ELSE LET fs == NextFrameSet(streams, heads, dt)
         IN  <<fs>> \o CollateFrom(streams, Advance(streams, heads, fs), dt)

\* a collation that ignores the dt it is given and uses a window of one unit
CollateUnitDt(streams, dt) == CollateFrom(streams, [s \in Sensors |-> 1], 1)

\* collate_scans(source, sensors_count, get_ts, dt=dt), run to its end
Collate(streams, dt) == CollateFrom(streams, [s \in Sensors |-> 1], dt)

\* the frame timestamps a stream may carry
Timestamps == 0 .. MaxTs

\* the collator is handed its streams and dt
CoInit ==
    /\ co_streams \in [Sensors -> SeqsUpTo(Timestamps, MaxFrames)]
    /\ co_dt \in 1 .. MaxDt
    /\ co_heads = [s \in Sensors |-> 1]
    /\ co_out = <<>>
    /\ co_pc = "running"

\* no collator running
CoIdle ==
    /\ co_streams = [s \in Sensors |-> <<>>]
    /\ co_dt = 1
    /\ co_heads = [s \in Sensors |-> 1]
    /\ co_out = <<>>
    /\ co_pc = "running"

\* one collation cycle: close out a FrameSet and advance the consumed sensors
CoCycle ==
    /\ co_pc = "running"
    /\ Pending(co_streams, co_heads) # {}
    /\ LET fs == NextFrameSet(co_streams, co_heads, co_dt)
       IN  /\ co_out' = Append(co_out, fs)
           /\ co_heads' = Advance(co_streams, co_heads, fs)
    /\ UNCHANGED <<co_streams, co_dt, co_pc>>
    /\ UNCHANGED NotCo

\* the collator ends as soon as one sensor iterator is exhausted
CoFinishAnyExhausted ==
    /\ co_pc = "running"
    /\ Pending(co_streams, co_heads) # Sensors
    /\ co_pc' = "done"
    /\ UNCHANGED <<co_streams, co_dt, co_heads, co_out>>
    /\ UNCHANGED NotCo
\* all sensor iterators are exhausted: the collator ends
CoFinish ==
    /\ co_pc = "running"
    /\ Pending(co_streams, co_heads) = {}
    /\ co_pc' = "done"
    /\ UNCHANGED <<co_streams, co_dt, co_heads, co_out>>
    /\ UNCHANGED NotCo


(***************************************************************************)
(* Part 4.  OsfScanSource (osf/multi.py) and the __getitem__ guard of      *)
(* PcapScanSource (sdkx/pcap_scan_source.py).                              *)
(*                                                                         *)
(* A stream is the sequence of msg.ts of its messages, in the order the    *)
(* reader returns them.  A scan is named by its sensor and the position of *)
(* its message in the stream; its first_valid_packet_ts is the msg.ts the  *)
(* writer saved it with.  A FrameSet is, per sensor, the position of the   *)
(* scan it holds, or 0 for an absent slot.                                 *)
(***************************************************************************)

\* ts_by_message_idx, asked for a message the stream does not have, is
\* outside the source: it either raises or answers with timestamp 0
LookupRaises == -1
MissOutcomes == {LookupRaises, 0}

\* a FrameSet with every slot absent
NoFs == [s \in Sensors |-> 0]

\* the message timestamps of one stream: strictly increasing
MsgSeqs ==
    {q \in SeqsUpTo(Timestamps, MaxFrames) : \A i \in 1 .. Len(q) - 1 : q[i] < q[i + 1]}

\* _scans_iter(start_ts, stop_ts, False): per sensor, the positions of the
\* messages in [start_ts, stop_ts] whose decode() gives a scan
ScansIter(msgs, bad, start_ts, stop_ts) ==
    [s \in Sensors |->
        SelectSeq([i \in 1 .. Len(msgs[s]) |-> i],
                  LAMBDA i : /\ msgs[s][i] >= start_ts
                             /\ msgs[s][i] <= stop_ts
                             /\ <<s, i>> \notin bad)]

\* collate_scans over the scans ids names, keyed by first_valid_packet_ts
CollateScans(msgs, ids, dt) ==
    LET streams == [s \in Sensors |-> [k \in 1 .. Len(ids[s]) |-> msgs[s][ids[s][k]]]]
        out == Collate(streams, dt)
    IN  [k \in 1 .. Len(out) |->
            [s \in Sensors |-> IF out[k][s] = 0 THEN 0 ELSE ids[s][out[k][s]]]]

\* __init__: self._len, the collation of all messages keyed by msg.ts
OsfLen(msgs, dt) == Len(Collate(msgs, dt))

\* __iter__: the FrameSets of a full forward iteration (self._cycle False)
Forward == CollateScans(src_msgs, ScansIter(src_msgs, src_bad, 0, MaxTs), src_dt)

\* __getitem__: a negative key counts from the end
ResolveKey(key, L) == IF key < 0 THEN key + L ELSE key

\* self._reader.ts_by_message_idx(mid, key)
TsByMessageIdx(msgs, s, k, miss) ==
    IF k + 1 <= Len(msgs[s]) THEN msgs[s][k + 1] ELSE miss

\* how a __getitem__ call ended: the exception or "ok", the FrameSet or the
\* offset it returned, and the index lookups, seeks and reads it made
Outcome(status, value, offset, lookups, seeks, reads) ==
    [status |-> status, value |-> value, offset |-> offset,
     lookups |-> lookups, seeks |-> seeks, reads |-> reads]

\* OsfScanSource.__getitem__ without the is_indexed check
OsfGetItemNoIndexCheck(key, miss) ==
    LET L == src_len
        k == ResolveKey(key, L)
    IN  IF k < 0 \/ k >= L THEN Outcome("IndexError", NoFs, 0, 0, 0, 0)
        ELSE LET ts == [s \in Sensors |-> TsByMessageIdx(src_msgs, s, k, miss)]
             IN  IF \E s \in Sensors : ts[s] = LookupRaises
                 THEN Outcome("LookupError", NoFs, 0, NumSensors, 0, 0)
                 ELSE LET ts_start == SetMin({ts[s] : s \in Sensors})
                          ts_stop == Min(ts_start + src_dt, SetMax({ts[s] : s \in Sensors}))
                          out == CollateScans(src_msgs,
                                              ScansIter(src_msgs, src_bad, ts_start, ts_stop),
                                              src_dt)
                      IN  IF out = <<>>
                          THEN Outcome("StopIteration", NoFs, 0, NumSensors, 0, 1)
                          ELSE Outcome("ok", out[1], 0, NumSensors, 0, 1)

\* OsfScanSource.__getitem__ that rejects every negative key
OsfGetItemNoWrap(key, miss) ==
    IF ~src_indexed THEN Outcome("RuntimeError", NoFs, 0, 0, 0, 0)
    ELSE IF key < 0 THEN Outcome("IndexError", NoFs, 0, 0, 0, 0)
    ELSE OsfGetItemNoIndexCheck(key, miss)

\* OsfScanSource.__getitem__(key), key an int
OsfGetItem(key, miss) ==
    IF ~src_indexed THEN Outcome("RuntimeError", NoFs, 0, 0, 0, 0)
    ELSE LET L == src_len
             k == ResolveKey(key, L)
         IN  IF k < 0 \/ k >= L THEN Outcome("IndexError", NoFs, 0, 0, 0, 0)
             ELSE LET ts == [s \in Sensors |-> TsByMessageIdx(src_msgs, s, k, miss)]
                  IN  IF \E s \in Sensors : ts[s] = LookupRaises
                      THEN Outcome("LookupError", NoFs, 0, NumSensors, 0, 0)
                      ELSE LET ts_start == SetMin({ts[s] : s \in Sensors})
                               ts_stop == Min(ts_start + src_dt,
                                              SetMax({ts[s] : s \in Sensors}))
                               out == CollateScans(src_msgs,
                                                   ScansIter(src_msgs, src_bad,
                                                             ts_start, ts_stop),
                                                   src_dt)
                           IN  IF out = <<>>
                               THEN Outcome("StopIteration", NoFs, 0, NumSensors, 0, 1)
                               ELSE Outcome("ok", out[1], 0, NumSensors, 0, 1)

\* PcapScanSource: self._frame_offset, one offset per FrameSet of the index
\* pass; the offset of FrameSet k is named k
FrameOffset == [k \in 1 .. Len(Collate(src_msgs, src_dt)) |-> k]

\* PcapScanSource.__len__
PcapLen == IF src_indexed THEN Len(FrameOffset) ELSE 0

\* PcapScanSource.__getitem__(key), key an int: the guard, then one seek to
\* self._frame_offset[key] and one read of the FrameSet found there
PcapGetItem(key) ==
    IF ~src_indexed THEN Outcome("RuntimeError", NoFs, 0, 0, 0, 0)
    ELSE LET L == PcapLen
             k == ResolveKey(key, L)
         IN  IF k < 0 \/ k >= L THEN Outcome("IndexError", NoFs, 0, 0, 0, 0)
             ELSE Outcome("ok", NoFs, FrameOffset[k + 1], 0, 1, 1)

\* no __getitem__ call was made yet
NoCall == [kind |-> "none", key |-> 0, it_at |-> 0, res |-> Outcome("none", NoFs, 0, 0, 0, 0)]

\* a source just opened on a file; at most one message, the last of its
\* stream, fails to decode
SrcInit ==
    /\ src_msgs \in [Sensors -> MsgSeqs]
    /\ src_bad \in {{}} \cup {{<<s, Len(src_msgs[s])>>} : s \in {x \in Sensors : src_msgs[x] # <<>>}}
    /\ src_dt \in {1, MaxDt}
    /\ src_indexed \in BOOLEAN
    /\ src_len = OsfLen(src_msgs, src_dt)
    /\ src_it_out = <<>>
    /\ src_it_pc = "running"
    /\ src_call = NoCall

\* no source is in use
SrcIdle ==
    /\ src_msgs = [s \in Sensors |-> <<>>]
    /\ src_bad = {}
    /\ src_dt = 1
    /\ src_indexed = FALSE
    /\ src_len = 0
    /\ src_it_out = <<>>
    /\ src_it_pc = "running"
    /\ src_call = NoCall

\* the consumer runs a forward iteration to its end: list(source)
SrcIterateAll ==
    /\ src_it_pc = "running"
    /\ src_it_out' = Forward
    /\ src_it_pc' = "done"
    /\ UNCHANGED <<src_msgs, src_bad, src_dt, src_indexed, src_len, src_call>>
    /\ UNCHANGED NotSrc

\* the keys a caller tries: every index in range and one beyond at each end
Keys == (0 - src_len - 1) .. src_len

\* source[key] on an OsfScanSource.  __getitem__ assigns no field of the
\* source, so every call sees the source as the one observed call does
OsfCall ==
    /\ src_call = NoCall
    /\ \E key \in Keys, miss \in MissOutcomes :
         src_call' = [kind |-> "osf", key |-> key, it_at |-> Len(src_it_out),
                      res |-> OsfGetItem(key, miss)]
    /\ UNCHANGED <<src_msgs, src_bad, src_dt, src_indexed, src_len, src_it_out, src_it_pc>>
    /\ UNCHANGED NotSrc

\* source[key] on a PcapScanSource
PcapCall ==
    /\ src_call = NoCall
    /\ \E key \in Keys :
         src_call' = [kind |-> "pcap", key |-> key, it_at |-> Len(src_it_out),
                      res |-> PcapGetItem(key)]
    /\ UNCHANGED <<src_msgs, src_bad, src_dt, src_indexed, src_len, src_it_out, src_it_pc>>
    /\ UNCHANGED NotSrc


(***************************************************************************)
(* Part 5.  The frame batcher, as the specification describes it           *)
(* (section 4.1): a watermark frame id, columns written at their index,    *)
(* a frame closed by the first packet of a greater frame id.               *)
(***************************************************************************)

\* columns of a frame
NumCols == 2
Cols == 1 .. NumCols
FrameIds == 1 .. MaxFid

\* a closed frame: its id, the columns it received, and its completeness
Frame(fid, cols) == [fid |-> fid, cols |-> cols, complete |-> cols = Cols]

BaState == [watermark |-> ba_watermark, cols |-> ba_cols, out |-> ba_out]

\* a batcher that closes the open frame on every packet of another frame id
BatchPacketAnyOtherId(st, fid, col) ==
    IF st.watermark = 0
    THEN [st |-> [st EXCEPT !.watermark = fid, !.cols = {col}], fate |-> "opened"]
    ELSE IF fid # st.watermark
    THEN [st |-> [watermark |-> fid, cols |-> {col},
                  out |-> Append(st.out, Frame(st.watermark, st.cols))],
          fate |-> "closed_prior"]
    ELSE [st |-> [st EXCEPT !.cols = @ \cup {col}], fate |-> "written"]

\* one packet of frame id fid carrying column col
BatchPacket(st, fid, col) ==
    IF st.watermark = 0
    THEN [st |-> [st EXCEPT !.watermark = fid, !.cols = {col}], fate |-> "opened"]
    ELSE IF fid > st.watermark
    THEN [st |-> [watermark |-> fid, cols |-> {col},
                  out |-> Append(st.out, Frame(st.watermark, st.cols))],
          fate |-> "closed_prior"]
    ELSE IF fid = st.watermark
    THEN [st |-> [st EXCEPT !.cols = @ \cup {col}], fate |-> "written"]
    ELSE [st |-> st, fate |-> "dropped"]

NoPacket == [fid |-> 0, col |-> 0, fate |-> "none"]

BaInit ==
    /\ ba_watermark = 0
    /\ ba_cols = {}
    /\ ba_out = <<>>
    /\ ba_arrived = 0
    /\ ba_last = NoPacket
    /\ ba_pc = "running"

\* no batcher is in use
BaIdle == BaInit

\* a packet arrives
BaPacket ==
    /\ ba_pc = "running"
    /\ ba_arrived < MaxArrivals
    /\ \E fid \in FrameIds, col \in Cols :
         LET r == BatchPacket(BaState, fid, col)
         IN  /\ ba_watermark' = r.st.watermark
             /\ ba_cols' = r.st.cols
             /\ ba_out' = r.st.out
             /\ ba_last' = [fid |-> fid, col |-> col, fate |-> r.fate]
    /\ ba_arrived' = ba_arrived + 1
    /\ UNCHANGED ba_pc
    /\ UNCHANGED NotBa

\* the packet stream ends: the open frame, if any, is emitted
BaEnd ==
    /\ ba_pc = "running"
    /\ ba_out' = IF ba_watermark = 0 THEN ba_out
                 ELSE Append(ba_out, Frame(ba_watermark, ba_cols))
    /\ ba_pc' = "done"
    /\ UNCHANGED <<ba_watermark, ba_cols, ba_arrived, ba_last>>
    /\ UNCHANGED NotBa


(***************************************************************************)
(* Part 6.  Opening an OsfScanSource (osf/multi.py, __init__) and reading  *)
(* its scans.                                                              *)
(***************************************************************************)

\* how _reindex_osf_inplace can end: it returns, it raises the RuntimeError
\* it makes of an OSError of the copy, or another exception leaves it
ReindexOutcomes == {"ok", "RuntimeError", "OtherError"}

OpInit ==
    /\ op_file_idx \in BOOLEAN
    /\ op_scans \in SeqsUpTo(BOOLEAN, MaxFrames)
    /\ op_index \in BOOLEAN
    /\ op_complete \in BOOLEAN
    /\ op_reindex \in ReindexOutcomes
    /\ op_state = "unopened"
    /\ op_indexed = FALSE
    /\ op_out = <<>>

\* no OSF file is being opened
OpIdle ==
    /\ op_file_idx = FALSE
    /\ op_scans = <<>>
    /\ op_index = FALSE
    /\ op_complete = FALSE
    /\ op_reindex = "ok"
    /\ op_state = "unopened"
    /\ op_indexed = FALSE
    /\ op_out = <<>>

\* OsfScanSource.__init__: the reader is opened; a file without index is
\* re-indexed in place if index is set; a RuntimeError of the re-indexing is
\* printed and the file is opened again as it is
OsfOpen ==
    /\ op_state = "unopened"
    /\ IF ~op_file_idx /\ op_index
       THEN CASE op_reindex = "ok" ->
                   op_file_idx' = TRUE /\ op_state' = "open" /\ op_indexed' = TRUE
              [] op_reindex = "RuntimeError" ->
                   UNCHANGED op_file_idx /\ op_state' = "open" /\ op_indexed' = op_file_idx
              [] OTHER ->
                   UNCHANGED op_file_idx /\ op_state' = "raised" /\ UNCHANGED op_indexed
       ELSE UNCHANGED op_file_idx /\ op_state' = "open" /\ op_indexed' = op_file_idx
    /\ UNCHANGED <<op_scans, op_index, op_complete, op_reindex, op_out>>
    /\ UNCHANGED NotOp

\* _scans_iter / __iter__: the next decoded scan is yielded as it is; the
\* complete argument was only printed by __init__
OsfYield ==
    /\ op_state = "open"
    /\ Len(op_out) < Len(op_scans)
    /\ op_out' = Append(op_out, op_scans[Len(op_out) + 1])
    /\ UNCHANGED <<op_file_idx, op_scans, op_index, op_complete, op_reindex, op_state, op_indexed>>
    /\ UNCHANGED NotOp


(***************************************************************************)
(* Part 7.  process_commands (cli/plugins/source.py): the generator        *)
(* save_iter around the scan iterator, the threads the callbacks register, *)
(* the pipeline_flush thread and the shared ctx.terminate_evt.             *)
(***************************************************************************)

\* what one pull on iter(ctx.scan_source) can give: a scan, a ClientTimeout,
\* or another exception
EventKinds == {"scan", "timeout", "error"}

PrInit ==
    /\ pr_events \in SeqsUpTo(EventKinds, MaxEvents)
    /\ pr_pos = 0
    /\ pr_save = "running"
    /\ pr_got = <<>>
    /\ pr_term = FALSE
    /\ pr_has_worker \in BOOLEAN
    /\ pr_has_mainfn \in BOOLEAN
    /\ pr_worker = "idle"
    /\ pr_flush = "idle"
    /\ pr_main = "start"
    /\ pr_closed = FALSE
    /\ pr_after = 0

\* process_commands is not running
PrIdle ==
    /\ pr_events = <<>>
    /\ pr_pos = 0
    /\ pr_save = "running"
    /\ pr_got = <<>>
    /\ pr_term = FALSE
    /\ pr_has_worker = FALSE
    /\ pr_has_mainfn = FALSE
    /\ pr_worker = "idle"
    /\ pr_flush = "idle"
    /\ pr_main = "start"
    /\ pr_closed = FALSE
    /\ pr_after = 0

\* `for thread in threads: thread.start()`
PrStart ==
    /\ pr_main = "start"
    /\ pr_worker' = IF pr_has_worker THEN "running" ELSE "done"
    /\ pr_flush' = "running"
    /\ pr_main' = IF pr_has_mainfn THEN "mainfn" ELSE "join"
    /\ UNCHANGED <<pr_events, pr_pos, pr_save, pr_got, pr_term, pr_has_worker,
                   pr_has_mainfn, pr_closed, pr_after>>
    /\ UNCHANGED NotPr

\* ctx.main_thread_fn() returns and the main thread sets the flag
PrMainFnReturns ==
    /\ pr_main = "mainfn"
    /\ pr_term' = TRUE
    /\ pr_main' = "join"
    /\ UNCHANGED <<pr_events, pr_pos, pr_save, pr_got, pr_has_worker, pr_has_mainfn,
                   pr_worker, pr_flush, pr_closed, pr_after>>
    /\ UNCHANGED NotPr

\* a registered thread ends: it found the flag set at its loop head, or it
\* is through with its work and sets the flag before it terminates
PrWorkerEnds ==
    /\ pr_worker = "running"
    /\ pr_term' = TRUE
    /\ pr_worker' = "done"
    /\ UNCHANGED <<pr_events, pr_pos, pr_save, pr_got, pr_has_worker, pr_has_mainfn,
                   pr_flush, pr_main, pr_closed, pr_after>>
    /\ UNCHANGED NotPr

\* one iteration of `for _ in ctx.scan_iter: pass` in pipeline_flush, the
\* pull going through save_iter: a scan is passed on; a ClientTimeout is
\* printed and save_iter returns; the end of the scans ends save_iter; any
\* other exception reaches pipeline_flush, which sets the flag and re-raises
PrFlushPull ==
    /\ pr_flush = "running"
    /\ pr_after' = IF pr_term THEN Min(pr_after + 1, 2) ELSE pr_after
    /\ IF pr_pos >= Len(pr_events)
       THEN /\ pr_save' = "ended"
            /\ pr_got' = Append(pr_got, "end")
            /\ pr_flush' = "done"
            /\ UNCHANGED <<pr_pos, pr_term>>
       ELSE /\ pr_pos' = pr_pos + 1
            /\ CASE pr_events[pr_pos + 1] = "scan" ->
                      /\ pr_got' = Append(pr_got, "scan")
                      /\ UNCHANGED <<pr_save, pr_flush, pr_term>>
                 [] pr_events[pr_pos + 1] = "timeout" ->
                      /\ pr_save' = "ended"
                      /\ pr_got' = Append(pr_got, "end")
                      /\ pr_flush' = "done"
                      /\ UNCHANGED pr_term
                 [] OTHER ->
                      /\ pr_save' = "ended"
                      /\ pr_got' = Append(pr_got, "error")
                      /\ pr_term' = TRUE
                      /\ pr_flush' = "failed"
    /\ UNCHANGED <<pr_events, pr_has_worker, pr_has_mainfn, pr_worker, pr_main, pr_closed>>
    /\ UNCHANGED NotPr

\* `for thread in threads: thread.join()` is through
PrJoined ==
    /\ pr_main = "join"
    /\ pr_worker = "done"
    /\ pr_flush \in {"done", "failed"}
    /\ pr_main' = "close"
    /\ UNCHANGED <<pr_events, pr_pos, pr_save, pr_got, pr_term, pr_has_worker,
                   pr_has_mainfn, pr_worker, pr_flush, pr_closed, pr_after>>
    /\ UNCHANGED NotPr

\* finally: ctx.scan_source.close()
PrClose ==
    /\ pr_main = "close"
    /\ pr_closed' = TRUE
    /\ pr_main' = "returned"
    /\ UNCHANGED <<pr_events, pr_pos, pr_save, pr_got, pr_term, pr_has_worker,
                   pr_has_mainfn, pr_worker, pr_flush, pr_after>>
    /\ UNCHANGED NotPr


(***************************************************************************)
(* Part 8.  SimpleViz (sdk/viz.py): run() on the main thread, with the     *)
(* render loop and its key handlers, and _process on the processing        *)
(* thread, around one _Seekable.  The scans of the stream are 0, 1, ...    *)
(***************************************************************************)

\* the n_frames the key bindings pass to seek_relative
SeekSteps == {0 - 10, 0 - 1, 1, 10}

NoSeek == [n |-> 0]

\* no scan with index pause_at was displayed yet
NoPauseAt == [at |-> 0 - 1]

\* no step request is noted
NoReq == [calls |-> 0]

\* the step requests made since the processing thread last took a step:
\* how many calls, the sum of their offsets, and the scan on screen, the
\* lower edge of the cache window and the place of the processing thread
\* at the first of them
NoteRequest(n) ==
    IF vz_step # 0 /\ vz_req # NoReq
    THEN [vz_req EXCEPT !.calls = @ + 1, !.sum = @ + n]
    ELSE [calls |-> 1, sum |-> n,
          i |-> IF vz_shown = <<>> THEN 0 - 1 ELSE vz_shown[Len(vz_shown)],
          lo |-> vz_sk.read_ind - Len(vz_sk.cache),
          waiting |-> vz_proc = "wait"]

\* the stream as the _Seekable's iterator sees it: a closed source ends
VzItems ==
    LET all == [k \in 1 .. vz_n |-> k - 1]
    IN  IF vz_closed = "closed" THEN SubSeq(all, 1, Min(vz_sk.it, vz_n)) ELSE all

\* the wait_for predicate of _process
VzWakeUp == ~vz_paused \/ vz_step # 0 \/ vz_proc_exit

VzInit ==
    /\ vz_n \in 0 .. MaxScans
    /\ vz_buflen \in 1 .. MaxBuf
    /\ vz_pause_at \in (0 - 1) .. (vz_n - 1)
    /\ vz_sk = [next_ind |-> 0, read_ind |-> 0 - 1, cache |-> <<>>, it |-> 0]
    /\ vz_paused = FALSE
    /\ vz_step = 0
    /\ vz_proc_exit = FALSE
    /\ vz_proc = "unstarted"
    /\ vz_scan_idx = 0 - 1
    /\ vz_scan = NoVal
    /\ vz_main = "init"
    /\ vz_running = TRUE
    /\ vz_keys = 0
    /\ vz_closed = "no"
    /\ vz_shown = <<>>
    /\ vz_bare = FALSE
    /\ vz_seek = NoSeek
    /\ vz_pa = NoPauseAt
    /\ vz_req = NoReq

\* no SimpleViz is running
VzIdle ==
    /\ vz_n = 0
    /\ vz_buflen = 1
    /\ vz_pause_at = 0 - 1
    /\ vz_sk = [next_ind |-> 0, read_ind |-> 0 - 1, cache |-> <<>>, it |-> 0]
    /\ vz_paused = FALSE
    /\ vz_step = 0
    /\ vz_proc_exit = FALSE
    /\ vz_proc = "unstarted"
    /\ vz_scan_idx = 0 - 1
    /\ vz_scan = NoVal
    /\ vz_main = "init"
    /\ vz_running = TRUE
    /\ vz_keys = 0
    /\ vz_closed = "no"
    /\ vz_shown = <<>>
    /\ vz_bare = FALSE
    /\ vz_seek = NoSeek
    /\ vz_pa = NoPauseAt
    /\ vz_req = NoReq

\* run(): the _Seekable is built, _proc_exit cleared, the processing thread
\* started; the main thread enters the render loop
VzRunStart ==
    /\ vz_main = "init"
    /\ vz_proc_exit' = FALSE
    /\ vz_proc' = "wait"
    /\ vz_main' = "render"
    /\ UNCHANGED <<vz_n, vz_buflen, vz_pause_at, vz_sk, vz_paused, vz_step, vz_scan_idx,
                   vz_scan, vz_running, vz_keys, vz_closed, vz_shown, vz_bare, vz_seek, vz_pa, vz_req>>
    /\ UNCHANGED NotVz

\* toggle_pause, called by the render loop for the pause key
VzTogglePause ==
    /\ vz_main = "render"
    /\ vz_running
    /\ vz_keys < MaxKeys
    /\ vz_keys' = vz_keys + 1
    /\ vz_paused' = ~vz_paused
    /\ vz_seek' = NoSeek
    /\ vz_req' = NoReq
    /\ UNCHANGED vz_pa
    /\ UNCHANGED <<vz_n, vz_buflen, vz_pause_at, vz_sk, vz_step, vz_proc_exit, vz_proc,
                   vz_scan_idx, vz_scan, vz_main, vz_running, vz_closed, vz_shown, vz_bare>>
    /\ UNCHANGED NotVz

\* seek_relative that sets the step and leaves _paused alone
VzSeekRelativeNoPause(n) ==
    /\ vz_main = "render"
    /\ vz_running
    /\ vz_keys < MaxKeys
    /\ vz_keys' = vz_keys + 1
    /\ vz_step' = n
    /\ vz_seek' = [n |-> n,
                   i |-> IF vz_shown = <<>> THEN 0 - 1 ELSE vz_shown[Len(vz_shown)],
                   lo |-> vz_sk.read_ind - Len(vz_sk.cache),
                   at |-> Len(vz_shown),
                   waiting |-> vz_proc = "wait"]
    /\ vz_req' = NoteRequest(n)
    /\ UNCHANGED vz_pa
    /\ UNCHANGED <<vz_n, vz_buflen, vz_pause_at, vz_sk, vz_paused, vz_proc_exit, vz_proc,
                   vz_scan_idx, vz_scan, vz_main, vz_running, vz_closed, vz_shown, vz_bare>>
    /\ UNCHANGED NotVz
\* seek_relative(n), called by the render loop for the step keys; vz_seek
\* notes the scan on screen, the lower edge of the cache window and whether
\* the processing thread stood at the condition variable
VzSeekRelative(n) ==
    /\ vz_main = "render"
    /\ vz_running
    /\ vz_keys < MaxKeys
    /\ vz_keys' = vz_keys + 1
    /\ vz_paused' = TRUE
    /\ vz_step' = n
    /\ vz_seek' = [n |-> n,
                   i |-> IF vz_shown = <<>> THEN 0 - 1 ELSE vz_shown[Len(vz_shown)],
                   lo |-> vz_sk.read_ind - Len(vz_sk.cache),
                   at |-> Len(vz_shown),
                   waiting |-> vz_proc = "wait"]
    /\ vz_req' = NoteRequest(n)
    /\ UNCHANGED vz_pa
    /\ UNCHANGED <<vz_n, vz_buflen, vz_pause_at, vz_sk, vz_proc_exit, vz_proc,
                   vz_scan_idx, vz_scan, vz_main, vz_running, vz_closed, vz_shown, vz_bare>>
    /\ UNCHANGED NotVz

\* the render loop ends: the processing thread cleared the running flag, the
\* window was closed, or KeyboardInterrupt
VzRenderEnds ==
    /\ vz_main = "render"
    /\ vz_main' = "close"
    /\ UNCHANGED <<vz_n, vz_buflen, vz_pause_at, vz_sk, vz_paused, vz_step, vz_proc_exit,
                   vz_proc, vz_scan_idx, vz_scan, vz_running, vz_keys, vz_closed, vz_shown,
                   vz_bare, vz_seek, vz_pa, vz_req>>
    /\ UNCHANGED NotVz

\* finally: try: seekable.close() except Exception: logger.warn(...).
\* A close made while the processing thread is inside next() on the source
\* may raise (a generator that is executing raises ValueError).
VzClose ==
    /\ vz_main = "close"
    /\ vz_closed' \in {"closed"} \cup
                      (IF vz_proc = "pulling" /\ vz_sk.next_ind > vz_sk.read_ind
                       THEN {"raised"} ELSE {})
    /\ vz_main' = "set_exit"
    /\ UNCHANGED <<vz_n, vz_buflen, vz_pause_at, vz_sk, vz_paused, vz_step, vz_proc_exit,
                   vz_proc, vz_scan_idx, vz_scan, vz_running, vz_keys, vz_shown, vz_bare,
                   vz_seek, vz_pa, vz_req>>
    /\ UNCHANGED NotVz

\* with self._cv: self._proc_exit = True; self._cv.notify()
VzSetExit ==
    /\ vz_main = "set_exit"
    /\ vz_proc_exit' = TRUE
    /\ vz_main' = "join"
    /\ UNCHANGED <<vz_n, vz_buflen, vz_pause_at, vz_sk, vz_paused, vz_step, vz_proc,
                   vz_scan_idx, vz_scan, vz_running, vz_keys, vz_closed, vz_shown, vz_bare,
                   vz_seek, vz_pa, vz_req>>
    /\ UNCHANGED NotVz

\* proc_thread.join() returns, and so does run()
VzJoin ==
    /\ vz_main = "join"
    /\ vz_proc = "done"
    /\ vz_main' = "returned"
    /\ UNCHANGED <<vz_n, vz_buflen, vz_pause_at, vz_sk, vz_paused, vz_step, vz_proc_exit,
                   vz_proc, vz_scan_idx, vz_scan, vz_running, vz_keys, vz_closed, vz_shown,
                   vz_bare, vz_seek, vz_pa, vz_req>>
    /\ UNCHANGED NotVz

\* the with-block of _process that does not wait for the predicate
VzProcHeadNoWait ==
    /\ vz_proc = "wait"
    /\ IF vz_proc_exit
       THEN /\ vz_proc' = "finish"
            /\ UNCHANGED <<vz_sk, vz_step>>
       ELSE IF vz_step # 0
       THEN LET r == SeekableSeek(vz_sk, vz_sk.next_ind + vz_step - 1, VzItems, vz_buflen)
            IN  /\ vz_step' = 0
                /\ vz_sk' = r.st
                /\ vz_proc' = CASE r.ret = "True" -> "pull"
                                [] r.ret = "False" -> "wait"
                                [] OTHER -> "finish"
       ELSE /\ vz_proc' = "pull"
            /\ UNCHANGED <<vz_sk, vz_step>>
    /\ UNCHANGED <<vz_n, vz_buflen, vz_pause_at, vz_paused, vz_proc_exit, vz_scan_idx,
                   vz_scan, vz_main, vz_running, vz_keys, vz_closed, vz_shown, vz_bare,
                   vz_seek, vz_pa, vz_req>>
    /\ UNCHANGED NotVz
\* the with-block at the head of the loop of _process: wait_for returns once
\* the predicate holds; quit breaks the loop; a pending step is taken and
\* the seek made (False: continue; an exception leaves the loop)
VzProcHead ==
    /\ vz_proc = "wait"
    /\ VzWakeUp
    /\ IF vz_proc_exit
       THEN /\ vz_proc' = "finish"
            /\ UNCHANGED <<vz_sk, vz_step>>
       ELSE IF vz_step # 0
       THEN LET r == SeekableSeek(vz_sk, vz_sk.next_ind + vz_step - 1, VzItems, vz_buflen)
            IN  /\ vz_step' = 0
                /\ vz_sk' = r.st
                /\ vz_proc' = CASE r.ret = "True" -> "pull"
                                [] r.ret = "False" -> "wait"
                                [] OTHER -> "finish"
       ELSE /\ vz_proc' = "pull"
            /\ UNCHANGED <<vz_sk, vz_step>>
    /\ UNCHANGED <<vz_n, vz_buflen, vz_pause_at, vz_paused, vz_proc_exit, vz_scan_idx,
                   vz_scan, vz_main, vz_running, vz_keys, vz_closed, vz_shown, vz_bare,
                   vz_seek, vz_pa, vz_req>>
    /\ UNCHANGED NotVz

\* scan_idx = seekable.next_ind, and next(seekable) is entered
VzProcPullBegin ==
    /\ vz_proc = "pull"
    /\ vz_scan_idx' = vz_sk.next_ind
    /\ vz_proc' = "pulling"
    /\ UNCHANGED <<vz_n, vz_buflen, vz_pause_at, vz_sk, vz_paused, vz_step, vz_proc_exit,
                   vz_scan, vz_main, vz_running, vz_keys, vz_closed, vz_shown, vz_bare,
                   vz_seek, vz_pa, vz_req>>
    /\ UNCHANGED NotVz

\* next(seekable) returns a scan, which is drawn (update=False), or raises
VzProcPullReturns ==
    /\ vz_proc = "pulling"
    /\ LET r == SeekableNext(vz_sk, VzItems, vz_buflen)
       IN  /\ vz_sk' = r.st
           /\ IF r.ret = "value"
              THEN vz_scan' = r.val /\ vz_proc' = "drawn"
              ELSE vz_scan' = vz_scan /\ vz_proc' = "finish"
    /\ UNCHANGED <<vz_n, vz_buflen, vz_pause_at, vz_paused, vz_step, vz_proc_exit,
                   vz_scan_idx, vz_main, vz_running, vz_keys, vz_closed, vz_shown, vz_bare,
                   vz_seek, vz_pa, vz_req>>
    /\ UNCHANGED NotVz

\* the rest of the loop body without the pause_at check
VzProcShowNoPauseAt ==
    /\ vz_proc = "drawn"
    /\ vz_pa' = IF vz_pause_at = vz_scan_idx
                THEN [at |-> Len(vz_shown) + 1, keys |-> vz_keys, step |-> vz_step]
                ELSE vz_pa
    /\ vz_shown' = Append(vz_shown, vz_scan)
    /\ vz_proc' = "wait"
    /\ UNCHANGED <<vz_n, vz_buflen, vz_pause_at, vz_sk, vz_step, vz_proc_exit, vz_scan_idx,
                   vz_scan, vz_main, vz_running, vz_keys, vz_closed, vz_seek, vz_req,
                   vz_paused, vz_bare>>
    /\ UNCHANGED NotVz
\* the rest of the loop body: _paused is set for pause_at (outside the
\* with-block), then self._viz.update() puts the drawn scan on screen;
\* vz_pa notes the display of the scan with index pause_at
VzProcShow ==
    /\ vz_proc = "drawn"
    /\ IF vz_pause_at = vz_scan_idx
       THEN /\ vz_paused' = TRUE
            /\ vz_bare' = TRUE
            /\ vz_pa' = [at |-> Len(vz_shown) + 1, keys |-> vz_keys, step |-> vz_step]
       ELSE UNCHANGED <<vz_paused, vz_bare, vz_pa>>
    /\ vz_shown' = Append(vz_shown, vz_scan)
    /\ vz_proc' = "wait"
    /\ UNCHANGED <<vz_n, vz_buflen, vz_pause_at, vz_sk, vz_step, vz_proc_exit, vz_scan_idx,
                   vz_scan, vz_main, vz_running, vz_keys, vz_closed, vz_seek, vz_req>>
    /\ UNCHANGED NotVz

\* except StopIteration: pass; finally: self._viz.running(False)
VzProcFinish ==
    /\ vz_proc = "finish"
    /\ vz_running' = FALSE
    /\ vz_proc' = "done"
    /\ UNCHANGED <<vz_n, vz_buflen, vz_pause_at, vz_sk, vz_paused, vz_step, vz_proc_exit,
                   vz_scan_idx, vz_scan, vz_main, vz_keys, vz_closed, vz_shown, vz_bare,
                   vz_seek, vz_pa, vz_req>>
    /\ UNCHANGED NotVz


(***************************************************************************)
(* Part 9.  PcapScanSource.__init__ with index = True: the pass that       *)
(* fills self._frame_offset (sdkx/pcap_scan_source.py:77-88).              *)
(***************************************************************************)

\* a slot of a FrameSet without a scan
Absent == 0 - 2
\* dict.get of a frame id the index does not hold: None
NotRecorded == 0 - 1

\* what a slot of a FrameSet stands for in the index pass
Lookups == {Absent, NotRecorded} \cup (0 .. MaxOffset)

\* the FrameSets a collation yields: at least one slot holds a scan
IndexedFrameSets == {fs \in [Sensors -> Lookups] : \E s \in Sensors : fs[s] # Absent}

\* `[... for idx, scan in enumerate(scans) if scan]`: the lookups of the
\* scans present
Offsets(fs) == {fs[s] : s \in {x \in Sensors : fs[x] # Absent}}

\* `[v for v in offsets if v]`: None and 0 are both falsy
Truthy(offs) == {v \in offs : v # NotRecorded /\ v # 0}

IxInit ==
    /\ ix_sets \in SeqsUpTo(IndexedFrameSets, MaxSets)
    /\ ix_frame_offset = <<>>
    /\ ix_pc = "running"

\* no index pass
IxIdle ==
    /\ ix_sets = <<>>
    /\ ix_frame_offset = <<>>
    /\ ix_pc = "running"

\* one iteration of `for scan_idx, scans in enumerate(scans_itr)`: min() of
\* the kept offsets is appended; min() of an empty list raises ValueError
IxStep ==
    /\ ix_pc = "running"
    /\ Len(ix_frame_offset) < Len(ix_sets)
    /\ LET kept == Truthy(Offsets(ix_sets[Len(ix_frame_offset) + 1]))
       IN  IF kept = {}
           THEN ix_pc' = "ValueError" /\ UNCHANGED ix_frame_offset
           ELSE ix_frame_offset' = Append(ix_frame_offset, SetMin(kept)) /\ UNCHANGED ix_pc
    /\ UNCHANGED ix_sets
    /\ UNCHANGED NotIx

\* the pass is through: "finished building index"
IxFinish ==
    /\ ix_pc = "running"
    /\ Len(ix_frame_offset) = Len(ix_sets)
    /\ ix_pc' = "done"
    /\ UNCHANGED <<ix_sets, ix_frame_offset>>
    /\ UNCHANGED NotIx

(***************************************************************************)
(* Part 10.  OsfScanSource: the sensor index paired with each message      *)
(* (osf/multi.py:64-95, 144-163) and the generator _scans_iter over        *)
(* _msgs_iter with and without cycle.                                      *)
(***************************************************************************)

\* self._stream_ids: one id per LidarScanStream entry
StreamIds == 1 .. Len(om_streams)

\* sensors_count (osf/multi.py:161-163): len(self._stream_ids)
OmSensorsCount == Len(om_streams)

\* self._stream_sensor_idx[stream_id]: the position, counted from 0, of the
\* stream's sensor among the LidarSensor entries
StreamSensorIdx(stream_id) == om_streams[stream_id] - 1

OmInit ==
    /\ om_sensors \in 1 .. NumSensors
    /\ om_streams \in SeqsUpTo(1 .. om_sensors, NumSensors)
    /\ om_msgs \in SeqsUpTo([stream : StreamIds, ok : BOOLEAN], MaxMsgs)
    /\ om_cycle \in BOOLEAN
    /\ om_pc = "suspended"
    /\ om_pos = 0
    /\ om_pass_yields = 0
    /\ om_out = <<>>

\* no OSF iteration
OmIdle ==
    /\ om_sensors = 1
    /\ om_streams = <<>>
    /\ om_msgs = <<>>
    /\ om_cycle = FALSE
    /\ om_pc = "suspended"
    /\ om_pos = 0
    /\ om_pass_yields = 0
    /\ om_out = <<>>

\* the consumer pulls the next (idx, scan) from _scans_iter
OmPull ==
    /\ om_pc = "suspended"
    /\ Len(om_out) < MaxYields
    /\ om_pc' = "running"
    /\ UNCHANGED <<om_sensors, om_streams, om_msgs, om_cycle, om_pos, om_pass_yields, om_out>>
    /\ UNCHANGED NotOm

\* the generator reads one message: it is paired with its sensor index and,
\* if decode() gives a scan, yielded
OmRead ==
    /\ om_pc = "running"
    /\ om_pos < Len(om_msgs)
    /\ om_pos' = om_pos + 1
    /\ IF om_msgs[om_pos + 1].ok
       THEN /\ om_out' = Append(om_out, StreamSensorIdx(om_msgs[om_pos + 1].stream))
            /\ om_pass_yields' = om_pass_yields + 1
            /\ om_pc' = "suspended"
       ELSE UNCHANGED <<om_out, om_pass_yields, om_pc>>
    /\ UNCHANGED <<om_sensors, om_streams, om_msgs, om_cycle>>
    /\ UNCHANGED NotOm

\* self._reader.messages(...) is exhausted: `if not cycle: break` ends the
\* generator; with cycle the `while True` starts the next pass, and a pass
\* that yielded nothing is followed by the same pass again, without end
OmEndOfPass ==
    /\ om_pc = "running"
    /\ om_pos = Len(om_msgs)
    /\ IF ~om_cycle
       THEN om_pc' = "done" /\ UNCHANGED <<om_pos, om_pass_yields>>
       ELSE IF om_pass_yields = 0
       THEN om_pc' = "spin" /\ UNCHANGED <<om_pos, om_pass_yields>>
       ELSE om_pos' = 0 /\ om_pass_yields' = 0 /\ UNCHANGED om_pc
    /\ UNCHANGED <<om_sensors, om_streams, om_msgs, om_cycle, om_out>>
    /\ UNCHANGED NotOm

vars == <<sk_vars, pcap_vars, co_vars, src_vars, ba_vars, op_vars, pr_vars, vz_vars,
         ix_vars, om_vars>>

SkNext == CallNext \/ CallSeek

\* a _Seekable on its own
SeekableInit == SkInit /\ SkIdle /\ CoIdle /\ SrcIdle /\ BaIdle /\ OpIdle /\ PrIdle /\ VzIdle /\ IxIdle /\ OmIdle

SeekableSpec == SeekableInit /\ [][SkNext]_vars

PcapNext ==
    \/ IterPull
    \/ IterAcquire
    \/ IterNextPacket
    \/ IterCurrentInfo
    \/ IterValidate
    \/ PcapSeekCheck
    \/ PcapSeekUse
    \/ PcapRestart
    \/ PcapClose

\* a PcapMultiPacketReader on its own
PcapReaderInit == PcapInit /\ PcapIdle /\ CoIdle /\ SrcIdle /\ BaIdle /\ OpIdle /\ PrIdle /\ VzIdle /\ IxIdle /\ OmIdle

PcapSpec == PcapReaderInit /\ [][PcapNext]_vars

CoNext == CoCycle \/ CoFinish

\* a collator on its own
CollatorInit == CoInit /\ SkIdle /\ PcapIdle /\ SrcIdle /\ BaIdle /\ OpIdle /\ PrIdle /\ VzIdle /\ IxIdle /\ OmIdle

CollateSpec == CollatorInit /\ [][CoNext]_vars

SrcNext == SrcIterateAll \/ OsfCall \/ PcapCall

\* an indexed multi-scan source on its own
SourceInit == SrcInit /\ SkIdle /\ PcapIdle /\ CoIdle /\ BaIdle /\ OpIdle /\ PrIdle /\ VzIdle /\ IxIdle /\ OmIdle

SourceSpec == SourceInit /\ [][SrcNext]_vars

BaNext == BaPacket \/ BaEnd

\* a frame batcher on its own
BatcherInit == BaInit /\ SkIdle /\ PcapIdle /\ CoIdle /\ SrcIdle /\ OpIdle /\ PrIdle /\ VzIdle /\ IxIdle /\ OmIdle

BatcherSpec == BatcherInit /\ [][BaNext]_vars

OpNext == OsfOpen \/ OsfYield

\* the opening of one OSF file on its own
OsfOpenInit == OpInit /\ SkIdle /\ PcapIdle /\ CoIdle /\ SrcIdle /\ BaIdle /\ PrIdle /\ VzIdle /\ IxIdle /\ OmIdle

OsfOpenSpec == OsfOpenInit /\ [][OpNext]_vars

PrNext == PrStart \/ PrMainFnReturns \/ PrWorkerEnds \/ PrFlushPull \/ PrJoined \/ PrClose

\* one run of process_commands on its own
ProcInit == PrInit /\ SkIdle /\ PcapIdle /\ CoIdle /\ SrcIdle /\ BaIdle /\ OpIdle /\ VzIdle /\ IxIdle /\ OmIdle

ProcSpec == ProcInit /\ [][PrNext]_vars

VzNext ==
    \/ VzRunStart \/ VzTogglePause \/ (\E n \in SeekSteps : VzSeekRelative(n))
    \/ VzRenderEnds \/ VzClose \/ VzSetExit \/ VzJoin
    \/ VzProcHead \/ VzProcPullBegin \/ VzProcPullReturns \/ VzProcShow \/ VzProcFinish

\* one call of SimpleViz.run on its own
VizInit == VzInit /\ SkIdle /\ PcapIdle /\ CoIdle /\ SrcIdle /\ BaIdle /\ OpIdle /\ PrIdle /\ IxIdle /\ OmIdle

VizSpec == VizInit /\ [][VzNext]_vars

IxNext == IxStep \/ IxFinish

\* one index pass on its own
IndexBuildInit ==
    IxInit /\ SkIdle /\ PcapIdle /\ CoIdle /\ SrcIdle /\ BaIdle /\ OpIdle /\ PrIdle /\ VzIdle /\ OmIdle

IndexBuildSpec == IndexBuildInit /\ [][IxNext]_vars

OmNext == OmPull \/ OmRead \/ OmEndOfPass

\* one iteration of an OSF file on its own
OsfIterInit ==
    OmInit /\ SkIdle /\ PcapIdle /\ CoIdle /\ SrcIdle /\ BaIdle /\ OpIdle /\ PrIdle /\ VzIdle /\ IxIdle

OsfIterSpec == OsfIterInit /\ [][OmNext]_vars

(***************************************************************************)
(* Claims about _Seekable, checked under SeekableSpec.                     *)
(***************************************************************************)

\* oldest index still held in the cache before the last call
PreLow == sk_pre.read_ind - Len(sk_pre.cache) + 1

\* C1: after every __next__ and seek call, whatever it returned or raised,
\* (read_ind - len(cache)) < next_ind <= read_ind + 1, and __next__ never
\* reaches its AssertionError branch.
C1_SeekableInvariant ==
    /\ read_ind - Len(cache) < next_ind
    /\ next_ind <= read_ind + 1
    /\ sk_call.ret # "AssertionError"

\* a backward seek to the oldest retained index, after items were evicted
C1_Witness ==
    /\ sk_call.op = "seek"
    /\ sk_call.ret = "True"
    /\ next_ind = read_ind - Len(cache) + 1
    /\ next_ind < sk_pre.next_ind
    /\ read_ind + 1 > maxlen

\* C2: the value __next__ returns when next_ind = i is the i-th item (0-based)
\* of the wrapped producer, also after older items were evicted.
C2_NextReturnsIndexedItem ==
    (sk_call.op = "next" /\ sk_call.ret = "value")
        => /\ sk_pre.next_ind < Len(iterable)
           /\ sk_call.val = iterable[sk_pre.next_ind + 1]

\* __next__ served from the cache, not from its newest slot, after an eviction,
\* where the neighbouring cached item is a different value
C2_Witness ==
    /\ sk_call.op = "next"
    /\ sk_call.ret = "value"
    /\ sk_pre.next_ind < sk_pre.read_ind
    /\ sk_pre.read_ind + 1 > maxlen
    /\ iterable[sk_pre.next_ind + 1] # iterable[sk_pre.next_ind + 2]

\* C3 as stated: seek(target) returns True iff
\* read_ind - len(cache) + 1 <= target <= next_ind at the time of the call.
C3_Original_SeekTrueIffInWindow ==
    sk_call.op = "seek"
        => ((sk_call.ret = "True") <=> (PreLow <= sk_call.ind /\ sk_call.ind <= sk_pre.next_ind))

\* C3 amended: seek(target) returns True iff target is not below the retained
\* window (read_ind - len(cache) + 1 <= target at call time) and the producer
\* yields at least target items in all; it returns False iff target is below
\* the retained window.
C3_SeekTrueIffNotEvicted ==
    sk_call.op = "seek"
        => /\ (sk_call.ret = "True") <=> (PreLow <= sk_call.ind /\ sk_call.ind <= Len(iterable))
           /\ (sk_call.ret = "False") <=> (sk_call.ind < PreLow)

\* a forward seek past next_ind that pulled from the producer and succeeded
C3_Witness ==
    /\ sk_call.op = "seek"
    /\ sk_call.ret = "True"
    /\ sk_call.ind > sk_pre.next_ind
    /\ it > sk_pre.it
    /\ Len(sk_pre.cache) > 0

\* C4: when seek(target) returns True, next_ind = target afterwards and the
\* next __next__ call delivers the item with index target.
C4_SeekTrueSetsNextInd ==
    (sk_call.op = "seek" /\ sk_call.ret = "True")
        => /\ next_ind = sk_call.ind
           /\ sk_call.ind < Len(iterable)
                => LET r == SeekableNext(SkState, iterable, maxlen)
                   IN  r.ret = "value" /\ r.val = iterable[sk_call.ind + 1]

\* a successful backward seek into the cache
C4_Witness ==
    /\ sk_call.op = "seek"
    /\ sk_call.ret = "True"
    /\ sk_call.ind < sk_pre.next_ind
    /\ sk_call.ind < read_ind

\* C5: when seek(target) returns False, next_ind, read_ind and the cache are
\* what they were before the call and nothing was pulled from the producer.
C5_SeekFalseChangesNothing ==
    (sk_call.op = "seek" /\ sk_call.ret = "False") => SkState = sk_pre

\* a seek to an index that was produced and then evicted
C5_Witness ==
    /\ sk_call.op = "seek"
    /\ sk_call.ret = "False"
    /\ sk_call.ind >= 0
    /\ sk_call.ind < it

\* C6: with a producer of exactly N items, seek(target) raises StopIteration
\* when target > N, and raises nothing when target <= N.
C6_SeekPastEndStops ==
    sk_call.op = "seek"
        => /\ sk_call.ret \in {"True", "False", "StopIteration"}
           /\ (sk_call.ret = "StopIteration") <=> (sk_call.ind > Len(iterable))

\* a seek past the end that first replayed cached items, then drained the producer
C6_Witness ==
    /\ sk_call.op = "seek"
    /\ sk_call.ret = "StopIteration"
    /\ sk_pre.next_ind <= sk_pre.read_ind
    /\ it > sk_pre.it
    /\ next_ind = Len(iterable)

\* C7: the cache holds at most maxlen items, exactly the produced items with
\* indices read_ind - len(cache) + 1 .. read_ind, newest first; a pull moves
\* next_ind and read_ind by one, pushes the pulled item and drops only what
\* exceeds the capacity, from the oldest end.
C7_CacheHoldsMostRecent ==
    /\ Len(cache) <= maxlen
    /\ Len(cache) = Min(read_ind + 1, maxlen)
    /\ read_ind < Len(iterable)
    /\ \A k \in 1 .. Len(cache) : cache[k] = iterable[read_ind - k + 2]
    /\ (sk_call.op = "next" /\ it = sk_pre.it + 1)
          => /\ next_ind = sk_pre.next_ind + 1
             /\ read_ind = sk_pre.read_ind + 1
             /\ cache = SubSeq(<<iterable[it]>> \o sk_pre.cache, 1,
                               Min(maxlen, Len(sk_pre.cache) + 1))

\* a pull into a full cache of two differing items
C7_Witness ==
    /\ sk_call.op = "next"
    /\ it = sk_pre.it + 1
    /\ maxlen >= 2
    /\ Len(sk_pre.cache) = maxlen
    /\ sk_pre.cache[1] # sk_pre.cache[maxlen]

(***************************************************************************)
(* Claims about PcapMultiPacketReader, checked under PcapSpec.             *)
(***************************************************************************)

\* C8: when close() runs while an iteration is in progress, the iterating
\* thread never uses the cleared handle: a pull that begins after the close
\* reads no packet and ends as a normal end of the stream, and no pull of a
\* started iteration ends in an exception.
C8_CloseDuringIterationEndsCleanly ==
    /\ gen_last \in {NoVal, "packet", "StopIteration", "ValueError"}
    /\ gen_last = "ValueError" => gen_pc = "raised" /\ mapped_read = 0 /\ yielded = 0
    /\ gen_pc = "have_packet" => reader = "open" /\ lock = "gen"
    /\ gen_pull_closed => gen_pc \in {"raised", "loop", "locked", "finished"}
    /\ (gen_pull_closed /\ gen_pc = "raised") => gen_last = "ValueError"

\* an iteration that yielded a packet, was closed, and ended on its next pull
C8_Witness ==
    /\ gen_pc = "finished"
    /\ gen_pull_closed
    /\ reader = "None"
    /\ yielded > 0
    /\ rd_pos < Len(pcap)

\* C9 as stated: seek, next-packet, restart and close check and use the handle
\* under the mutex, so none of them calls a method of a handle close() has
\* cleared, and none runs while another one holds the mutex.
C9_Original_HandleOpsUnderLock ==
    /\ ~seek_fault
    /\ ~seek_torn

\* C10: no mapped packet is lost: the packets read whose port is mapped to a
\* sensor are the packets yielded plus size_error_count, plus id_error_count
\* in strict mode; a packet read and not yet validated is the one in flight.
C10_NoPacketSilentlyLost ==
    LET inflight == IF gen_pc = "validate" THEN 1 ELSE 0
        dropped == size_error_count + (IF soft_id_check THEN 0 ELSE id_error_count)
    IN  mapped_read = yielded + dropped + inflight

\* strict mode, between pulls: packets were yielded, a size error and an id
\* error were counted
C10_Witness ==
    /\ ~soft_id_check
    /\ gen_pc = "suspended"
    /\ yielded > 0
    /\ size_error_count > 0
    /\ id_error_count > 0

\* the generator validates the packet it holds in this step
ValidateStep == gen_pc = "validate" /\ gen_pc' # "validate"

\* the packet is handed to the consumer in this step
PassedThrough == gen_pc' = "suspended" /\ yielded' = yielded + 1 /\ gen_last' = "packet"

\* the packet is skipped in this step
Dropped == gen_pc' = "loop" /\ yielded' = yielded /\ gen_last' = gen_last

\* C11 as stated: a packet failing validation by size or by sensor id is
\* dropped in strict mode and passed through in soft mode; in both modes the
\* error is counted and nothing is raised.
C11_Original_SoftPassesAllFailures ==
    [][(ValidateStep /\ gen_pkt \in {"PACKET_SIZE", "ID"})
          => /\ IF soft_id_check THEN PassedThrough ELSE Dropped
             /\ size_error_count' + id_error_count' = size_error_count + id_error_count + 1]_vars

\* C11 amended: a packet failing by sensor-id mismatch is dropped in strict
\* mode and passed through in soft mode; a packet failing by size mismatch is
\* dropped in both modes; each failure adds one to its own counter, and the
\* step raises nothing.
C11_SoftPassesIdFailuresOnly ==
    [][ValidateStep
          => /\ gen_pkt = "ID"
                  => /\ IF soft_id_check THEN PassedThrough ELSE Dropped
                     /\ id_error_count' = id_error_count + 1
                     /\ size_error_count' = size_error_count
             /\ gen_pkt = "PACKET_SIZE"
                  => /\ Dropped
                     /\ size_error_count' = size_error_count + 1
                     /\ id_error_count' = id_error_count
             /\ gen_pkt = "NONE"
                  => /\ PassedThrough
                     /\ size_error_count' = size_error_count
                     /\ id_error_count' = id_error_count
             /\ gen_pc' # "raised"]_vars

\* soft mode: an ID mismatch was just passed through after a size mismatch was dropped
C11_Witness ==
    /\ soft_id_check
    /\ gen_pc = "suspended"
    /\ gen_pkt = "ID"
    /\ id_error_count > 0
    /\ size_error_count > 0
    /\ yielded = mapped_read - size_error_count

(***************************************************************************)
(* Claims about collate_scans, checked under CollateSpec.                  *)
(***************************************************************************)

\* the frames a FrameSet holds, each named by sensor and position
FramesIn(fs) == {<<s, fs[s]>> : s \in {x \in Sensors : fs[x] # 0}}

\* the pairs of frames that share a FrameSet of out
Share(out) == UNION {FramesIn(out[k]) \X FramesIn(out[k]) : k \in 1 .. Len(out)}

\* the positions emitted in slot s, in output order
RECURSIVE SlotSeq(_, _)
SlotSeq(out, s) ==
    IF out = <<>> THEN <<>>
    ELSE LET rest == SlotSeq(Tail(out), s)
         IN  IF Head(out)[s] # 0 THEN <<Head(out)[s]>> \o rest ELSE rest

RECURSIVE SumLen(_, _)
SumLen(streams, n) == IF n = 0 THEN 0 ELSE Len(streams[n]) + SumLen(streams, n - 1)

\* frames in all streams, and in the longest stream
TotalFrames == SumLen(co_streams, NumSensors)
LongestStream == SetMax({Len(co_streams[s]) : s \in Sensors})

\* frames not yet consumed
Remaining(heads) == SumLen([s \in Sensors |-> SubSeq(co_streams[s], heads[s], Len(co_streams[s]))],
                           NumSensors)

\* every stream has non-decreasing timestamps
StreamsSorted ==
    \A s \in Sensors : \A i \in 1 .. Len(co_streams[s]) - 1 :
        co_streams[s][i] <= co_streams[s][i + 1]

\* the window sizes larger than the one in use
LargerDts == (co_dt + 1) .. (MaxDt + 1)

C19_Original_SharingMonotoneInDt ==
    co_pc = "done"
        => \A d2 \in LargerDts : Share(co_out) \subseteq Share(Collate(co_streams, d2))

\* C19 amended: with a larger dt2 the first FrameSet holds every frame the
\* first FrameSet held with dt1, and for streams of non-decreasing timestamps
\* the collator emits no more FrameSets with dt2 than with dt1.
C19_LargerDtNoMoreFrameSets ==
    co_pc = "done"
        => \A d2 \in LargerDts :
             LET big == Collate(co_streams, d2)
             IN  /\ co_out # <<>> => FramesIn(co_out[1]) \subseteq FramesIn(big[1])
                 /\ StreamsSorted => Len(big) <= Len(co_out)

\* sorted streams for which a larger dt gives strictly fewer FrameSets
C19_Witness ==
    /\ co_pc = "done"
    /\ StreamsSorted
    /\ co_dt < MaxDt
    /\ Len(Collate(co_streams, co_dt + 1)) < Len(co_out)
    /\ \A s \in Sensors : Len(co_streams[s]) >= 2

\* C20: for every sensor s, its frames appear in the emitted FrameSets in the
\* order of its input stream, in slot s: the positions found in slot s, read
\* in output order, are 1, 2, 3, ... without gap or repetition.
C20_PerSensorOrderPreserved ==
    \A s \in Sensors :
        LET q == SlotSeq(co_out, s)
        IN  /\ \A i \in 1 .. Len(q) : q[i] = i
            /\ Len(q) <= Len(co_streams[s])
            /\ Len(q) = co_heads[s] - 1

\* a sensor with decreasing timestamps whose frames were all emitted, with a
\* FrameSet in between that did not hold it
C20_Witness ==
    /\ co_pc = "done"
    /\ \E s \in Sensors :
         /\ Len(co_streams[s]) = 2
         /\ co_streams[s][1] > co_streams[s][2]
         /\ \E k \in 2 .. (Len(co_out) - 1) : co_out[k][s] = 0 /\ co_out[k - 1][s] = 1

(***************************************************************************)
(* Claims about the indexed multi-scan sources, checked under SourceSpec.  *)
(***************************************************************************)

\* a __getitem__ call that was refused before any lookup, seek or read
Refused(status) == Outcome(status, NoFs, 0, 0, 0, 0)

\* len(source) as the source of the observed call computes it
CallLen == IF src_call.kind = "osf" THEN src_len ELSE PcapLen

\* the outcomes source[k] can have on the source of the observed call
CallOutcomes(k) ==
    IF src_call.kind = "osf" THEN {OsfGetItem(k, miss) : miss \in MissOutcomes}
    ELSE {PcapGetItem(k)}

\* C12: on a Pcap or Osf source without an index, __getitem__ raises
\* RuntimeError and makes no lookup, seek or read; the call leaves the forward
\* iteration as it was, and a forward iteration run after it yields the full
\* sequence of FrameSets.
C12_NonIndexedRefusesRandomAccess ==
    (src_call.kind # "none" /\ ~src_indexed)
        => /\ src_call.res = Refused("RuntimeError")
           /\ src_it_pc = "running" => (src_it_out = <<>> /\ src_call.it_at = 0)
           /\ src_it_pc = "done" => src_it_out = Forward

\* an in-range key refused on a non-indexed Osf source, and a forward
\* iteration that ran to its end after the refusal
C12_Witness ==
    /\ ~src_indexed
    /\ src_call.kind = "osf"
    /\ src_call.key \in 0 .. (src_len - 1)
    /\ src_call.res.status = "RuntimeError"
    /\ src_call.it_at = 0
    /\ src_it_pc = "done"
    /\ Len(src_it_out) >= 2

\* C13: on an indexed source of length L, get(i) with -L <= i < 0 ends as
\* get(i + L) does, and get(i) with i >= L or i < -L raises IndexError
\* without any lookup, seek or read.
C13_NegativeWrapsOutOfRangeRaises ==
    (src_call.kind # "none" /\ src_indexed)
        => LET L == CallLen
               key == src_call.key
           IN  /\ (key < 0 /\ key >= 0 - L) => src_call.res \in CallOutcomes(key + L)
               /\ (key >= L \/ key < 0 - L) => src_call.res = Refused("IndexError")

\* get(-1) on an indexed Osf source of two or more FrameSets returned a FrameSet
C13_Witness ==
    /\ src_indexed
    /\ src_call.kind = "osf"
    /\ src_len >= 2
    /\ \A s \in Sensors : Len(src_msgs[s]) = src_len
    /\ src_call.key = -1
    /\ src_call.res.status = "ok"
    /\ src_call.res.value # NoFs

\* C14 as stated: on an indexed source, get(i) is the i-th FrameSet of a full
\* forward iteration (checked where every message decodes and every stream
\* has a message of ordinal i).
C14_Original_GetEqualsForwardIteration ==
    (/\ src_call.kind = "osf"
     /\ src_indexed
     /\ src_bad = {}
     /\ src_call.key \in 0 .. (src_len - 1)
     /\ \A s \in Sensors : src_call.key + 1 <= Len(src_msgs[s]))
        => /\ src_call.res.status = "ok"
           /\ src_call.res.value = Forward[src_call.key + 1]

\* C15 as stated: the length of an indexed source is the number of FrameSets
\* a full forward iteration yields.
C15_Original_LenEqualsForwardCount ==
    (src_indexed /\ src_it_pc = "done") => Len(src_it_out) = src_len

\* the representative timestamp of the k-th emitted FrameSet: the minimum
\* timestamp of the frames it holds
RepTs(k) == SetMin({co_streams[s][co_out[k][s]] : s \in {x \in Sensors : co_out[k][x] # 0}})

\* C21: when every sensor's frames have non-decreasing timestamps, the
\* representative (minimum) timestamps of consecutively emitted FrameSets are
\* non-decreasing.
C21_FrameSetsInTimestampOrder ==
    StreamsSorted
        => \A k \in 1 .. (Len(co_out) - 1) :
             /\ co_out[k] # [s \in Sensors |-> 0]
             /\ co_out[k + 1] # [s \in Sensors |-> 0]
             /\ RepTs(k) <= RepTs(k + 1)

\* sorted streams collated to their end into three or more FrameSets, two
\* consecutive ones with the same representative timestamp
C21_Witness ==
    /\ StreamsSorted
    /\ co_pc = "done"
    /\ Len(co_out) >= 3
    /\ \E k \in 1 .. (Len(co_out) - 1) : RepTs(k) = RepTs(k + 1)
    /\ \E k \in 1 .. (Len(co_out) - 1) : RepTs(k) < RepTs(k + 1)

(***************************************************************************)
(* Claims about the frame batcher, checked under BatcherSpec.              *)
(***************************************************************************)

\* C22: the frame ids of the emitted frames are strictly increasing for any
\* arrival order of packets; a packet with a frame id greater than the
\* watermark closes and emits the current frame; a packet with a lower frame
\* id is dropped and changes neither the emitted frames nor the open frame.
C22_EmittedFrameIdsIncrease ==
    /\ [](\A k \in 1 .. (Len(ba_out) - 1) : ba_out[k].fid < ba_out[k + 1].fid)
    /\ [](ba_pc = "running" => \A k \in 1 .. Len(ba_out) : ba_out[k].fid < ba_watermark)
    /\ [][ba_arrived' # ba_arrived
            => /\ (ba_watermark # 0 /\ ba_last'.fid > ba_watermark)
                    => /\ ba_out' = Append(ba_out, Frame(ba_watermark, ba_cols))
                       /\ ba_watermark' = ba_last'.fid
               /\ ba_last'.fid < ba_watermark
                    => /\ UNCHANGED <<ba_out, ba_watermark, ba_cols>>
                       /\ ba_last'.fate = "dropped"]_vars

\* a straggler of an already emitted frame arrived and was dropped, and two
\* frames were emitted by then
C22_Witness ==
    /\ ba_last.fate = "dropped"
    /\ Len(ba_out) >= 2
    /\ \E k \in 1 .. Len(ba_out) : ba_out[k].fid = ba_last.fid

(***************************************************************************)
(* Claims about opening and reading an OSF file, checked under OsfOpenSpec.*)
(***************************************************************************)

\* C23 as stated: a scan stream opened with complete=True emits only
\* complete frames.
C23_Original_CompleteEmitsOnlyCompleteFrames ==
    op_complete => \A k \in 1 .. Len(op_out) : op_out[k]

\* C25 as stated: when the index build fails while a non-indexed OSF file is
\* opened with index=True, the open raises; no non-indexed source is returned.
C25_Original_FailedIndexBuildAbortsOpen ==
    (op_state # "unopened" /\ op_index /\ ~op_indexed /\ op_reindex # "ok")
        => op_state = "raised"

(***************************************************************************)
(* Claims about process_commands, checked under ProcSpec.                  *)
(***************************************************************************)

\* C24 as stated: when a pull on the source times out, the pull of the
\* consumer reports the timeout condition (and later scans are delivered).
C24_Original_TimeoutReportedToCaller ==
    \A k \in 1 .. Min(Len(pr_got), Len(pr_events)) :
        pr_events[k] = "timeout" => pr_got[k] = "timeout"

\* C26 as stated: once the termination flag is set, pipeline_flush stops at
\* its next loop iteration (it begins at most one more pull).
C26_Original_FlushStopsOnceFlagSet ==
    pr_after <= 1

(***************************************************************************)
(* Claims about SimpleViz, checked under VizSpec.                          *)
(***************************************************************************)

\* C27 as stated: run() returns only after the processing thread has
\* terminated, and on every exit path the source is closed before the return.
C27_Original_ReturnsAfterJoinAndClose ==
    vz_main = "returned" => vz_proc = "done" /\ vz_closed = "closed"

\* C28 as stated: while the processing thread runs, every write to _paused,
\* _step and _proc_exit is made holding the condition variable.
C28_Original_FlagWritesUnderLock ==
    ~vz_bare

\* C29 as stated: whenever the viz is paused with no step and no quit
\* pending, the processing thread neither pulls from the source nor displays.
C29_Original_PausedMeansNoPullNoDisplay ==
    [][(vz_paused /\ vz_step = 0 /\ ~vz_proc_exit)
         => (vz_sk' = vz_sk /\ vz_shown' = vz_shown)]_vars

\* C29, amended: a processing thread that stands at the condition variable
\* while paused with no step and no quit pending stays there and neither
\* pulls nor displays; it goes on to a pull only from a with-block in which
\* it saw unpaused or a step.  (A scan whose with-block was passed before
\* the pause is still pulled and displayed.)
C29_BlockedWhilePaused ==
    /\ [][(vz_proc = "wait" /\ ~VzWakeUp)
            => (vz_proc' = "wait" /\ vz_sk' = vz_sk /\ vz_shown' = vz_shown)]_vars
    /\ [][(vz_proc = "wait" /\ vz_proc' = "pull") => (~vz_paused \/ vz_step # 0)]_vars

\* the thread is blocked, paused by a key, with a scan on screen
C29_Witness ==
    /\ vz_main = "render"
    /\ vz_proc = "wait"
    /\ ~VzWakeUp
    /\ vz_keys >= 1
    /\ Len(vz_shown) >= 1

\* the scans displayed since the last seek_relative
SeekSince == SubSeq(vz_shown, vz_seek.at + 1, Len(vz_shown))

\* the processing thread took the step of the last seek_relative and is
\* through with it
SeekHandled == vz_seek # NoSeek /\ vz_step = 0 /\ vz_proc \in {"wait", "done"}

\* C30 as stated: with scan i displayed, seek_relative(n) pauses; if i+n is
\* in the cache window or ahead, exactly scan i+n is displayed next; if it
\* was evicted or lies before the start, nothing is displayed.
C30_Original_SeekShowsTarget ==
    vz_seek # NoSeek =>
        /\ vz_paused
        /\ SeekHandled =>
             IF vz_seek.i + vz_seek.n > vz_seek.lo
             THEN SeekSince = <<vz_seek.i + vz_seek.n>>
             ELSE SeekSince = <<>>

\* C30, amended: seek_relative(n) pauses.  If the processing thread stood at
\* the condition variable when it was called and the render loop still
\* runs: a target i+n at or below the lower edge of the cache window
\* displays nothing; a target above it and inside the stream displays
\* exactly scan i+n; a target past the end of the stream displays nothing
\* and ends the processing thread.
C30_SeekShowsTargetWhenWaiting ==
    vz_seek # NoSeek =>
        /\ vz_paused
        /\ (SeekHandled /\ vz_seek.waiting /\ vz_main = "render") =>
             IF vz_seek.i + vz_seek.n <= vz_seek.lo
             THEN SeekSince = <<>> /\ vz_proc = "wait"
             ELSE IF vz_seek.i + vz_seek.n < vz_n
             THEN SeekSince = <<vz_seek.i + vz_seek.n>> /\ vz_proc = "wait"
             ELSE SeekSince = <<>> /\ vz_proc = "done"

\* a step back inside the cache window was taken and its scan displayed
C30_Witness ==
    /\ SeekHandled
    /\ vz_seek.waiting
    /\ vz_main = "render"
    /\ vz_seek.n = 0 - 1
    /\ vz_seek.i >= 1
    /\ SeekSince = <<vz_seek.i - 1>>

C36_Original_StepRequestsAddUp ==
    (/\ vz_req # NoReq
     /\ vz_req.waiting
     /\ vz_step = 0
     /\ vz_proc = "wait"
     /\ vz_main = "render"
     /\ vz_req.i + vz_req.sum > vz_req.lo
     /\ vz_req.i + vz_req.sum < vz_n)
        => (vz_shown # <<>> /\ vz_shown[Len(vz_shown)] = vz_req.i + vz_req.sum)

(***************************************************************************)
(* A further claim about _Seekable, checked under SeekableSpec.            *)
(***************************************************************************)

\* C35: the number of items pulled from the producer is read_ind + 1 in
\* every state, it never goes down, and a __next__ whose index is at or
\* below read_ind (a replay after a backward seek) returns a value from the
\* cache without pulling.
C35_PulledOnceEach ==
    /\ [](it = read_ind + 1)
    /\ [][it' >= it]_vars
    /\ [][(sk_call'.op = "next" /\ next_ind <= read_ind)
            => (it' = it /\ read_ind' = read_ind /\ sk_call'.ret = "value")]_vars

\* after a backward seek a __next__ was served from the cache
C35_Witness ==
    /\ sk_call.op = "next"
    /\ sk_call.ret = "value"
    /\ sk_pre.next_ind <= sk_pre.read_ind
    /\ it = sk_pre.it
    /\ it >= 2

(***************************************************************************)
(* A further claim about PcapMultiPacketReader, checked under PcapSpec.    *)
(***************************************************************************)

\* C33: the first pull of an iteration begun on a closed reader raises
\* ValueError and yields nothing; closed is True once close() has returned
\* and stays True.
C33_ClosedReaderRaisesOnFirstPull ==
    /\ [][(gen_pc = "created" /\ closed /\ gen_pc' # gen_pc)
            => (gen_pc' = "raised" /\ gen_last' = "ValueError" /\ yielded' = yielded)]_vars
    /\ [][(~closed /\ reader' # reader) => closed']_vars
    /\ [][closed => closed']_vars
    /\ []((gen_pc = "raised" /\ gen_last = "ValueError") => (closed /\ yielded = 0))

\* a new iteration on a closed reader has raised ValueError
C33_Witness ==
    /\ closed
    /\ gen_pc = "raised"
    /\ gen_last = "ValueError"
    /\ yielded = 0
    /\ pcap # <<>>

\* C38 as stated: a get(i) made between two pulls of a forward iteration
\* does not disturb it.  __getitem__ seeks the packet reader both share, so
\* this needs the seek to leave the iteration's read position where it was.
C38_Original_SeekKeepsIterationPosition ==
    [][(gen_pc = "suspended" /\ seek_pc = "use" /\ seek_pc' = "idle" /\ ~closed)
         => rd_pos' = rd_pos]_vars

(***************************************************************************)
(* Claims about the index pass of PcapScanSource (IndexBuildSpec) and      *)
(* about the iteration of an OSF file (OsfIterSpec).                       *)
(***************************************************************************)

\* the FrameSet whose scans all have an offset recorded in the index
AllRecorded(fs) == NotRecorded \notin Offsets(fs)

\* C32 as stated: for FrameSets whose frames have their offsets recorded,
\* the pass does not fail, entry i of _frame_offset is the smallest offset
\* of FrameSet i, 0 included, and the finished pass has one entry per
\* FrameSet.
C32_Original_FrameOffsetIsSmallestOffset ==
    /\ \A i \in 1 .. Len(ix_frame_offset) :
          AllRecorded(ix_sets[i]) => ix_frame_offset[i] = SetMin(Offsets(ix_sets[i]))
    /\ ix_pc = "ValueError" => ~AllRecorded(ix_sets[Len(ix_frame_offset) + 1])
    /\ ix_pc = "done" => Len(ix_frame_offset) = Len(ix_sets)

\* C34 as stated: a pull on the iteration of an OSF file never spins
\* without yielding, with cycle or without.
C34_Original_CycleNeverSpins ==
    om_pc # "spin"

\* C37 as stated: every sensor index paired with a message is in
\* [0, sensors_count).
C37_Original_SensorIdxInRange ==
    \A k \in 1 .. Len(om_out) : om_out[k] >= 0 /\ om_out[k] < OmSensorsCount

====
